---- MODULE Spec2Model ----
(***************************************************************************)
(* Crop-box state machine, display mapping, crop executor and grid-puzzle  *)
(* download of the picture-cut application.                                *)
(*                                                                         *)
(* JavaScript numbers are modelled as exact rationals <<n, d>> (d > 0, in  *)
(* lowest terms): the arithmetic of the code (+, -, *, /, Math.floor,      *)
(* Math.min, Math.max) is computed exactly; binary floating-point rounding *)
(* is not modelled.                                                        *)
(***************************************************************************)
EXTENDS Integers, Sequences, FiniteSets, TLC

(***************************************************************************)
(* Exact rational arithmetic.                                              *)
(***************************************************************************)
RECURSIVE Gcd(_, _)
Gcd(a, b) == IF b = 0 THEN a ELSE Gcd(b, a % b)

Abs(n) == IF n < 0 THEN -n ELSE n

\* the rational n/d (d # 0) in lowest terms with a positive denominator
Q(n, d) ==
    LET s == IF d < 0 THEN -1 ELSE 1
        g == Gcd(Abs(n), Abs(d))
    IN  <<(s * n) \div g, (s * d) \div g>>

I(n) == <<n, 1>>

\* sums and comparisons over the least common denominator, products reduced
\* crosswise first
RAdd(a, b) ==
    LET g == Gcd(a[2], b[2])
    IN  Q(a[1] * (b[2] \div g) + b[1] * (a[2] \div g), (a[2] \div g) * b[2])
RSub(a, b) ==
    LET g == Gcd(a[2], b[2])
    IN  Q(a[1] * (b[2] \div g) - b[1] * (a[2] \div g), (a[2] \div g) * b[2])
RMul(a, b) ==
    LET g1 == Gcd(Abs(a[1]), b[2])
        g2 == Gcd(Abs(b[1]), a[2])
    IN  Q((a[1] \div g1) * (b[1] \div g2), (a[2] \div g2) * (b[2] \div g1))
RDiv(a, b) == RMul(a, Q(b[2], b[1]))
RLe(a, b) ==
    LET g == Gcd(a[2], b[2])
    IN  a[1] * (b[2] \div g) <= b[1] * (a[2] \div g)
RLt(a, b) ==
    LET g == Gcd(a[2], b[2])
    IN  a[1] * (b[2] \div g) < b[1] * (a[2] \div g)
RMax(a, b) == IF RLe(a, b) THEN b ELSE a
RMin(a, b) == IF RLe(a, b) THEN a ELSE b
\* Math.floor, as an integer-valued rational
RFloor(a) == I(a[1] \div a[2])

Box(x, y, w, h) == [x |-> x, y |-> y, width |-> w, height |-> h]
IBox(x, y, w, h) == Box(I(x), I(y), I(w), I(h))

(***************************************************************************)
(* Program constants.                                                      *)
(***************************************************************************)
\* useCropBoxDesktop.ts: const minSize = 50
MinSize == 50
\* useCropBoxDesktop.ts getContainerSize: size used when the container is absent
DefaultContainerDesktop == 400
\* useImageProcessor getImageDisplayInfo: size used when the container is absent
DefaultContainerProcessor == 500
\* useImageUpload getContainerSize: size used when the container is absent
DefaultContainerUpload == 400
\* margin of setCropBoxToFullImage and adjustCropBoxToImage
ResetMargin == 2
\* margin of handleFileUpload
UploadMargin == 3
\* breakpoints: isMobile = innerWidth < 768, isDesktop = innerWidth >= 1024
MobileBreakpoint == 768
DesktopBreakpoint == 1024

(***************************************************************************)
(* constrainCropBox: size first, then position.                            *)
(***************************************************************************)
\* a slip: the position bound computed from the unconstrained size
ConstrainCropBoxRawMax(cropBox, containerSize) ==
    LET constrainedWidth  == RMax(I(MinSize), RMin(containerSize, cropBox.width))
        constrainedHeight == RMax(I(MinSize), RMin(containerSize, cropBox.height))
        maxX == RMax(I(0), RSub(containerSize, cropBox.width))
        maxY == RMax(I(0), RSub(containerSize, cropBox.height))
    IN  Box(RMax(I(0), RMin(maxX, cropBox.x)),
            RMax(I(0), RMin(maxY, cropBox.y)),
            constrainedWidth, constrainedHeight)

ConstrainCropBox(cropBox, containerSize) ==
    LET constrainedWidth  == RMax(I(MinSize), RMin(containerSize, cropBox.width))
        constrainedHeight == RMax(I(MinSize), RMin(containerSize, cropBox.height))
        maxX == RMax(I(0), RSub(containerSize, constrainedWidth))
        maxY == RMax(I(0), RSub(containerSize, constrainedHeight))
        constrainedX == RMax(I(0), RMin(maxX, cropBox.x))
        constrainedY == RMax(I(0), RMin(maxY, cropBox.y))
    IN  Box(constrainedX, constrainedY, constrainedWidth, constrainedHeight)

(***************************************************************************)
(* Letterbox mapping of an image of imageWidth x imageHeight in a square   *)
(* container (getImageDisplayInfo, lines 423-451).  containerSize > 0.     *)
(***************************************************************************)
\* a slip: the branches of the aspect test exchanged
GetImageDisplayInfoSwapped(containerSize, imageWidth, imageHeight) ==
    LET imageAspectRatio == Q(imageWidth, imageHeight)
        wide == ~RLt(I(1), imageAspectRatio)
        displayWidth  == IF wide THEN containerSize
                                 ELSE RMul(containerSize, imageAspectRatio)
        displayHeight == IF wide THEN RDiv(containerSize, imageAspectRatio)
                                 ELSE containerSize
    IN  [containerSize |-> containerSize,
         displayWidth  |-> displayWidth,
         displayHeight |-> displayHeight,
         offsetX |-> IF wide THEN I(0)
                     ELSE RDiv(RSub(containerSize, displayWidth), I(2)),
         offsetY |-> IF wide THEN RDiv(RSub(containerSize, displayHeight), I(2))
                     ELSE I(0),
         scaleX |-> RDiv(I(imageWidth), displayWidth),
         scaleY |-> RDiv(I(imageHeight), displayHeight)]

GetImageDisplayInfo(containerSize, imageWidth, imageHeight) ==
    LET imageAspectRatio == Q(imageWidth, imageHeight)
        wide == RLt(I(1), imageAspectRatio)
        displayWidth  == IF wide THEN containerSize
                                 ELSE RMul(containerSize, imageAspectRatio)
        displayHeight == IF wide THEN RDiv(containerSize, imageAspectRatio)
                                 ELSE containerSize
    IN  [containerSize |-> containerSize,
         displayWidth  |-> displayWidth,
         displayHeight |-> displayHeight,
         offsetX |-> IF wide THEN I(0)
                     ELSE RDiv(RSub(containerSize, displayWidth), I(2)),
         offsetY |-> IF wide THEN RDiv(RSub(containerSize, displayHeight), I(2))
                     ELSE I(0),
         scaleX |-> RDiv(I(imageWidth), displayWidth),
         scaleY |-> RDiv(I(imageHeight), displayHeight)]

(***************************************************************************)
(* Display rectangle to source rectangle (cropImageFree, lines 491-507;    *)
(* createGridPuzzle repeats the same text at lines 621-637).               *)
(***************************************************************************)
\* a slip: the width is not clamped to what is left of the displayed image
ActualCropBoxUnclamped(cropBox, displayInfo) ==
    LET relativeX == RSub(cropBox.x, displayInfo.offsetX)
        relativeY == RSub(cropBox.y, displayInfo.offsetY)
        clampedX == RMax(I(0), RMin(relativeX, RSub(displayInfo.displayWidth, cropBox.width)))
        clampedY == RMax(I(0), RMin(relativeY, RSub(displayInfo.displayHeight, cropBox.height)))
    IN  Box(RFloor(RMul(clampedX, displayInfo.scaleX)),
            RFloor(RMul(clampedY, displayInfo.scaleY)),
            RFloor(RMul(cropBox.width, displayInfo.scaleX)),
            RFloor(RMul(cropBox.height, displayInfo.scaleY)))

ActualCropBox(cropBox, displayInfo) ==
    LET relativeX == RSub(cropBox.x, displayInfo.offsetX)
        relativeY == RSub(cropBox.y, displayInfo.offsetY)
        clampedX == RMax(I(0), RMin(relativeX, RSub(displayInfo.displayWidth, cropBox.width)))
        clampedY == RMax(I(0), RMin(relativeY, RSub(displayInfo.displayHeight, cropBox.height)))
        clampedWidth  == RMax(I(0), RMin(cropBox.width, RSub(displayInfo.displayWidth, clampedX)))
        clampedHeight == RMax(I(0), RMin(cropBox.height, RSub(displayInfo.displayHeight, clampedY)))
    IN  Box(RFloor(RMul(clampedX, displayInfo.scaleX)),
            RFloor(RMul(clampedY, displayInfo.scaleY)),
            RFloor(RMul(clampedWidth, displayInfo.scaleX)),
            RFloor(RMul(clampedHeight, displayInfo.scaleY)))

(***************************************************************************)
(* The boxes the resets write.                                             *)
(***************************************************************************)
\* a slip: the 60% square of resetCropBox used for the self-healing
SelfHealBoxSixty(containerSize) ==
    LET defaultSize   == RMax(I(MinSize), RFloor(RMul(containerSize, Q(6, 10))))
        defaultOffset == RMax(I(0), RFloor(RDiv(RSub(containerSize, defaultSize), I(2))))
    IN  Box(defaultOffset, defaultOffset, defaultSize, defaultSize)

\* startDrag / startResize: the box that replaces a degenerate one
SelfHealBox(containerSize) ==
    LET defaultSize   == RMax(I(MinSize), RFloor(RMul(containerSize, Q(3, 10))))
        defaultOffset == RMax(I(0), RFloor(RDiv(RSub(containerSize, defaultSize), I(2))))
    IN  Box(defaultOffset, defaultOffset, defaultSize, defaultSize)

\* resetCropBox
ResetBox(containerSize) ==
    LET size   == RFloor(RMul(containerSize, Q(6, 10)))
        offset == RFloor(RDiv(RSub(containerSize, size), I(2)))
    IN  Box(offset, offset, size, size)

\* the part of the letterbox mapping the three resets repeat inline
ImageDisplayRect(containerSize, imageWidth, imageHeight) ==
    LET imageAspectRatio == Q(imageWidth, imageHeight)
        wide == RLt(I(1), imageAspectRatio)
        imageDisplayWidth  == IF wide THEN containerSize
                              ELSE RMul(containerSize, imageAspectRatio)
        imageDisplayHeight == IF wide THEN RDiv(containerSize, imageAspectRatio)
                              ELSE containerSize
    IN  [imageDisplayWidth  |-> imageDisplayWidth,
         imageDisplayHeight |-> imageDisplayHeight,
         offsetX |-> IF wide THEN I(0)
                     ELSE RDiv(RSub(containerSize, imageDisplayWidth), I(2)),
         offsetY |-> IF wide THEN RDiv(RSub(containerSize, imageDisplayHeight), I(2))
                     ELSE I(0)]

\* a slip: the watcher resets to the centred 60% square of resetCropBox
AdjustBoxCenteredSquare(containerSize, imageWidth, imageHeight) ==
    LET size == RFloor(RMul(containerSize, Q(6, 10)))
    IN  Box(RDiv(RSub(containerSize, size), I(2)), RDiv(RSub(containerSize, size), I(2)),
            size, size)

\* adjustCropBoxToImage (desktop): margin 2, size floored at minSize
AdjustBox(containerSize, imageWidth, imageHeight) ==
    LET r == ImageDisplayRect(containerSize, imageWidth, imageHeight)
    IN  Box(RMax(I(0), RAdd(r.offsetX, I(ResetMargin))),
            RMax(I(0), RAdd(r.offsetY, I(ResetMargin))),
            RMax(I(MinSize), RSub(r.imageDisplayWidth, I(2 * ResetMargin))),
            RMax(I(MinSize), RSub(r.imageDisplayHeight, I(2 * ResetMargin))))

\* setCropBoxToFullImage: margin 2, nothing floored
FullImageBox(containerSize, imageWidth, imageHeight) ==
    LET r == ImageDisplayRect(containerSize, imageWidth, imageHeight)
    IN  Box(RAdd(r.offsetX, I(ResetMargin)),
            RAdd(r.offsetY, I(ResetMargin)),
            RSub(r.imageDisplayWidth, I(2 * ResetMargin)),
            RSub(r.imageDisplayHeight, I(2 * ResetMargin)))

\* handleFileUpload: margin 3, nothing floored
UploadBox(containerSize, imageWidth, imageHeight) ==
    LET r == ImageDisplayRect(containerSize, imageWidth, imageHeight)
    IN  Box(RAdd(r.offsetX, I(UploadMargin)),
            RAdd(r.offsetY, I(UploadMargin)),
            RSub(r.imageDisplayWidth, I(2 * UploadMargin)),
            RSub(r.imageDisplayHeight, I(2 * UploadMargin)))

(***************************************************************************)
(* Bounds of the model.                                                    *)
(***************************************************************************)
\* requests of the user in one run: files offered, pointer-downs on the crop box,
\* clicks on the crop, download and clear buttons, changes of the viewport
MaxRequests == 3
\* animation-frame callbacks that may be pending at once
MaxPending == 2

\* window.innerWidth: a phone, a tablet, a desktop window
ViewportWidths == {600, 900, 1280}
\* side of the preview container that is displayed (CSS: width 100%, max-width 500px)
ContainerSides == {400, 500}
\* pointer positions, relative to the left/top edge of the preview container
PointerDowns == {<<250, 250>>}
PointerMoves == {<<0, 250>>, <<700, 700>>}
\* the corner handles a pointer goes down on (of the four: nw, ne, sw, se)
Handles == {"nw", "se"}
\* natural sizes of the files offered for upload (10..8000 px, aspect <= 50)
UploadSizes == {<<1000, 500>>, <<10, 10>>, <<100, 1000>>}

(***************************************************************************)
(* Files offered for upload and what validateFile, createImageUrl and      *)
(* getImageDimensions make of them.  A file is its MIME type, its size in  *)
(* bytes, its name (a sequence of characters), its first bytes, whether    *)
(* the two FileReader reads succeed, what smartCompress does with it       *)
(* ("off": compression disabled), whether the Image decodes and the        *)
(* natural size of the decoded image.                                      *)
(***************************************************************************)
\* 5 * 1024 * 1024
MaxFileSize == 5242880
MinFileSize == 100
\* 1024 * 1024
CompressionThreshold == 1048576
MaxImageWidth == 8000
MaxImageHeight == 8000
MinImageWidth == 10
MinImageHeight == 10
MaxAspectRatio == 50

SupportedTypes == {"image/jpeg", "image/png", "image/gif", "image/webp"}

FileSignatures ==
    [type \in SupportedTypes |->
        CASE type = "image/jpeg" -> <<255, 216, 255>>
          [] type = "image/png"  -> <<137, 80, 78, 71>>
          [] type = "image/gif"  -> <<71, 73, 70>>
          [] type = "image/webp" -> <<82, 73, 70, 70>>]

\* checkFileSignature: a failed read resolves false, a known type needs its bytes
CheckFileSignature(file) ==
    /\ file.headerReads
    /\ file.type \in DOMAIN FileSignatures
    /\ LET expectedSignature == FileSignatures[file.type]
       IN  \A i \in 1..Len(expectedSignature) :
               i <= Len(file.header) /\ file.header[i] = expectedSignature[i]

\* the characters of /[<>:"/\|?*\x00-\x1f]/ (of the control characters: NUL, TAB)
DangerousChars == {"<", ">", ":", "\"", "/", "|", "?", "*", "NUL", "TAB"}
DangerousExtensions ==
    {<<"e", "x", "e">>, <<"b", "a", "t">>, <<"c", "m", "d">>, <<"c", "o", "m">>,
     <<"p", "i", "f">>, <<"s", "c", "r">>, <<"v", "b", "s">>, <<"j", "s">>,
     <<"j", "a", "r">>, <<"p", "h", "p">>, <<"a", "s", "p">>, <<"j", "s", "p">>}
UpperCase == <<"A", "B", "C", "D", "E", "F", "G", "H", "I", "J", "K", "L", "M",
               "N", "O", "P", "Q", "R", "S", "T", "U", "V", "W", "X", "Y", "Z">>
LowerCase == <<"a", "b", "c", "d", "e", "f", "g", "h", "i", "j", "k", "l", "m",
               "n", "o", "p", "q", "r", "s", "t", "u", "v", "w", "x", "y", "z">>
ToLowerCase(c) ==
    IF \E i \in DOMAIN UpperCase : UpperCase[i] = c
    THEN LowerCase[CHOOSE i \in DOMAIN UpperCase : UpperCase[i] = c]
    ELSE c
EndsWith(text, suffix) ==
    /\ Len(suffix) <= Len(text)
    /\ \A i \in 1..Len(suffix) :
           ToLowerCase(text[Len(text) - Len(suffix) + i]) = suffix[i]

\* validateFileName: no dangerous character, no dangerous extension (any case)
ValidateFileName(fileName) ==
    /\ ~\E i \in DOMAIN fileName : fileName[i] \in DangerousChars
    /\ ~\E extension \in DangerousExtensions : EndsWith(fileName, <<".">> \o extension)

\* a validation that skips the signature of the file
ValidateFileWithoutSignature(file) ==
    IF file.type \notin SupportedTypes THEN "unsupportedType"
    ELSE IF file.size > MaxFileSize THEN "tooLarge"
    ELSE IF file.size < MinFileSize THEN "tooSmall"
    ELSE IF ~ValidateFileName(file.name) THEN "unsafeName"
    ELSE "null"

\* validateFile: the first failed test, or null
ValidateFile(file) ==
    IF file.type \notin SupportedTypes THEN "unsupportedType"
    ELSE IF file.size > MaxFileSize THEN "tooLarge"
    ELSE IF file.size < MinFileSize THEN "tooSmall"
    ELSE IF ~ValidateFileName(file.name) THEN "unsafeName"
    ELSE IF ~CheckFileSignature(file) THEN "badSignature"
    ELSE "null"

\* the data URL of handleFileUpload: from smartCompress for a file over 1 MB with
\* compression enabled, from createImageUrl otherwise and when smartCompress fails
UrlCreated(file) ==
    IF file.compression # "off" /\ file.size > CompressionThreshold
    THEN file.compression = "ok" \/ file.reads
    ELSE file.reads

\* getImageDimensions: onerror, or the tests of onload
GetImageDimensions(file) ==
    IF ~file.decodes THEN "loadError"
    ELSE IF file.width > MaxImageWidth \/ file.height > MaxImageHeight THEN "tooBig"
    ELSE IF file.width < MinImageWidth \/ file.height < MinImageHeight THEN "tooSmallImage"
    ELSE LET longer == IF file.width > file.height THEN file.width ELSE file.height
             shorter == IF file.width > file.height THEN file.height ELSE file.width
         IN  IF longer > MaxAspectRatio * shorter THEN "aspectRatio" ELSE "ok"

\* handleFileUpload up to store.setImage: "ok", or why it returns false
UploadOutcome(file) ==
    IF ValidateFile(file) # "null" THEN ValidateFile(file)
    ELSE IF ~UrlCreated(file) THEN "readFailed"
    ELSE GetImageDimensions(file)

\* a PNG of 2 kB that passes every test, with the natural size given
ImageFile(size) ==
    [type |-> "image/png", size |-> 2048, name |-> <<"a", ".", "p", "n", "g">>,
     header |-> <<137, 80, 78, 71, 13, 10, 26, 10>>, headerReads |-> TRUE,
     reads |-> TRUE, compression |-> "ok", decodes |-> TRUE,
     width |-> size[1], height |-> size[2]]

\* a file that fails validation, and the valid files
UploadFiles == {[ImageFile(<<0, 0>>) EXCEPT !.type = "text/plain"]}
               \cup {ImageFile(s) : s \in UploadSizes}

\* files for every way of failing, and files at the limits
UploadCandidates ==
    LET good == ImageFile(<<1000, 500>>)
    IN  {ImageFile(s) : s \in UploadSizes \cup {<<8000, 8000>>, <<10, 500>>}}
        \cup {[good EXCEPT !.type = "text/plain"],
              [good EXCEPT !.type = "image/bmp", !.header = <<66, 77>>],
              [good EXCEPT !.size = MaxFileSize],
              [good EXCEPT !.size = MaxFileSize + 1],
              [good EXCEPT !.size = MinFileSize],
              [good EXCEPT !.size = MinFileSize - 1],
              [good EXCEPT !.name = <<"a", "<", "b", ".", "p", "n", "g">>],
              [good EXCEPT !.name = <<"a", ".", "p", "n", "g", ".", "J", "s">>],
              [good EXCEPT !.header = <<255, 216, 255, 224>>],
              [good EXCEPT !.header = <<137, 80>>],
              [good EXCEPT !.headerReads = FALSE],
              [good EXCEPT !.type = "image/jpeg", !.header = <<255, 216, 255, 224>>],
              [good EXCEPT !.reads = FALSE],
              [good EXCEPT !.reads = FALSE, !.size = 2 * CompressionThreshold],
              [good EXCEPT !.reads = FALSE, !.size = 2 * CompressionThreshold,
                           !.compression = "fails"],
              [good EXCEPT !.reads = FALSE, !.size = 2 * CompressionThreshold,
                           !.compression = "off"],
              [good EXCEPT !.decodes = FALSE],
              [good EXCEPT !.width = 8001],
              [good EXCEPT !.height = 8001, !.width = 8000],
              [good EXCEPT !.width = 9, !.height = 9],
              [good EXCEPT !.width = 10, !.height = 501]}

NoUrl == <<>>
NoImage == [url |-> NoUrl, width |-> 0, height |-> 0]
NoBox == IBox(0, 0, 0, 0)
Idle == [pc |-> "idle"]
\* lastOp of a handler no property looks at
Other == [op |-> "other"]

(***************************************************************************)
(* JavaScript values of a border width: a number, NaN, undefined or a      *)
(* string (the range input of the mobile layout is bound with v-model,     *)
(* which stores the input's string).                                       *)
(***************************************************************************)
Num(r) == [t |-> "number", v |-> r]
NaN == [t |-> "NaN", v |-> I(0)]
Undefined == [t |-> "undefined", v |-> I(0)]
Str(text) == [t |-> "string", v |-> I(0), s |-> text]

\* the values of the border-width range inputs
SliderMax == 20

\* Number(text) for the strings that occur: the decimal numerals of a range input,
\* the empty string (0), and text that is no numeral (NaN)
StringToNumber(text) ==
    IF text = "" THEN Num(I(0))
    ELSE IF \E n \in 0..SliderMax : ToString(n) = text
    THEN Num(I(CHOOSE n \in 0..SliderMax : ToString(n) = text))
    ELSE NaN

\* Number(v)
ToNumber(v) ==
    CASE v.t = "number" -> v
      [] v.t = "NaN" -> NaN
      [] v.t = "undefined" -> NaN
      [] v.t = "string" -> StringToNumber(v.s)

IsNaN(v) == v.t = "NaN"

VARIABLES
    innerWidth,      \* window.innerWidth
    side,            \* measured side of the displayed preview container
    cropBox,         \* store.cropBox
    image,           \* store.image: url (the raster <<w, h>> it decodes to), width, height
    isDragging, isResizing, dragStartPos, resizeHandle, initialCropBox,
    listeners,       \* document listeners of the gesture handlers, in order of attachment
    rafQueue,        \* boxes captured by pending requestAnimationFrame callbacks
    upload,          \* handleFileUpload in flight
    isUploading, uploadError,
    watchTimers,     \* pending setTimeout of watch(store.hasImage)
    crop,            \* handleCropImage in flight
    resetTimers,     \* pending setTimeout(setCropBoxToFullImage)
    grid,            \* downloadCompletePuzzle in flight
    isProcessing,    \* isProcessing of the view's image processor
    procTimers,      \* pending setTimeout(isProcessing = false)
    count,           \* requests of the user so far
    lastOp,          \* the handler that ran last, and what it found
    gridSize,        \* store.gridSize
    parameters,      \* store.parameters
    filter,          \* store.filter
    probe            \* inputs and results of the function-level specifications

vars == <<innerWidth, side, cropBox, image, isDragging, isResizing, dragStartPos,
          resizeHandle, initialCropBox, listeners, rafQueue, upload, isUploading,
          uploadError, watchTimers, crop, resetTimers, grid, isProcessing,
          procTimers, count, lastOp, gridSize, parameters, filter, probe>>

\* everything but probe
mainVars == <<innerWidth, side, cropBox, image, isDragging, isResizing, dragStartPos,
              resizeHandle, initialCropBox, listeners, rafQueue, upload, isUploading,
              uploadError, watchTimers, crop, resetTimers, grid, isProcessing,
              procTimers, count, lastOp, gridSize, parameters, filter>>

settingsVars == <<gridSize, parameters, filter>>
envVars     == <<innerWidth, side>>
gestureVars == <<isDragging, isResizing, dragStartPos, resizeHandle, initialCropBox,
                 listeners>>
uploadVars  == <<upload, isUploading, uploadError>>
gridVars    == <<grid, isProcessing, procTimers>>

(***************************************************************************)
(* The DOM as the code measures it.  Both layouts are in the document      *)
(* whenever an image is loaded (v-else of v-if="!store.hasImage"); the     *)
(* mobile layout is display:none from 1024 px up (lg:hidden), the desktop  *)
(* layout below it (hidden lg:block), and a hidden element measures 0.     *)
(***************************************************************************)
HasImage == image.url # NoUrl

DesktopContainerPresent == HasImage
MobileContainerPresent  == HasImage
DesktopContainerRect == IF innerWidth >= DesktopBreakpoint THEN side ELSE 0
MobileContainerRect  == IF innerWidth >= DesktopBreakpoint THEN 0 ELSE side

\* useCropBoxDesktop.getContainerSize
GetContainerSizeDesktop ==
    IF ~DesktopContainerPresent THEN DefaultContainerDesktop ELSE DesktopContainerRect

\* useCropBoxMobile.getContainerSize
GetContainerSizeMobile ==
    IF ~MobileContainerPresent THEN DefaultContainerDesktop ELSE MobileContainerRect

\* useImageUpload.getContainerSize
GetContainerSizeUpload ==
    LET isMobile == innerWidth < MobileBreakpoint
    IN  IF isMobile
        THEN (IF ~MobileContainerPresent THEN DefaultContainerUpload ELSE MobileContainerRect)
        ELSE (IF ~DesktopContainerPresent THEN DefaultContainerUpload ELSE DesktopContainerRect)

\* the container getImageDisplayInfo measures (lines 410-421)
GetContainerSizeProcessor ==
    LET isDesktop == innerWidth >= DesktopBreakpoint
    IN  IF isDesktop
        THEN (IF ~DesktopContainerPresent THEN DefaultContainerProcessor ELSE DesktopContainerRect)
        ELSE (IF ~MobileContainerPresent THEN DefaultContainerProcessor ELSE MobileContainerRect)

\* the container size setCropBoxToFullImage reads (isMobile is innerWidth < 768)
GetContainerSizeReset ==
    LET isMobile == innerWidth < MobileBreakpoint
    IN  IF isMobile THEN GetContainerSizeMobile ELSE GetContainerSizeDesktop

\* the desktop crop box and its handles can receive a pointer-down
CropBoxVisible == HasImage /\ innerWidth >= DesktopBreakpoint

Degenerate(box) == RLe(box.width, I(0)) \/ RLe(box.height, I(0))

(***************************************************************************)
(* Initial state: the store as defineStore builds it, no gesture, nothing  *)
(* pending.                                                                *)
(***************************************************************************)
NoProbe == [fn |-> "none"]

MainInit ==
    /\ innerWidth \in ViewportWidths
    /\ side \in ContainerSides
    /\ cropBox = IBox(50, 50, 300, 300)
    /\ image = NoImage
    /\ gridSize = "3x3"
    /\ parameters = [borderWidth |-> Num(I(3)), borderColor |-> "#FFFFFF"]
    /\ filter = "none"
    /\ isDragging = FALSE
    /\ isResizing = FALSE
    /\ dragStartPos = [x |-> I(0), y |-> I(0)]
    /\ resizeHandle = ""
    /\ initialCropBox = NoBox
    /\ listeners = <<>>
    /\ rafQueue = <<>>
    /\ upload = Idle
    /\ isUploading = FALSE
    /\ uploadError = FALSE
    /\ watchTimers = 0
    /\ crop = Idle
    /\ resetTimers = 0
    /\ grid = Idle
    /\ isProcessing = FALSE
    /\ procTimers = 0
    /\ count = 0
    /\ lastOp = Other

Init == MainInit /\ probe = NoProbe

\* store.updateCropBox: the new fields over the old ones
UpdateCropBox(box) == cropBox' = box

\* store.setImage together with watch(() => store.hasImage): the watcher runs when
\* hasImage changes, and schedules the adjustment when it has become true
SetImage(img) ==
    /\ image' = img
    /\ watchTimers' = IF ~HasImage /\ img.url # NoUrl THEN watchTimers + 1 ELSE watchTimers

Attach(name) == IF \E i \in 1..Len(listeners) : listeners[i] = name
                THEN listeners ELSE Append(listeners, name)
Attached(name) == \E i \in 1..Len(listeners) : listeners[i] = name

(***************************************************************************)
(* Gestures of the desktop crop box.                                       *)
(***************************************************************************)
\* mousedown / touchstart on the crop box body
StartDrag(px, py) ==
    /\ CropBoxVisible
    /\ count < MaxRequests
    /\ count' = count + 1
    /\ IF Degenerate(cropBox)
       THEN /\ UpdateCropBox(SelfHealBox(I(GetContainerSizeDesktop)))
            /\ lastOp' = [op |-> "startDrag", healed |-> TRUE,
                          containerSize |-> GetContainerSizeDesktop]
            /\ UNCHANGED gestureVars
       ELSE /\ isDragging' = TRUE
            /\ dragStartPos' = [x |-> RSub(I(px), cropBox.x), y |-> RSub(I(py), cropBox.y)]
            /\ listeners' = Attach("drag")
            /\ lastOp' = [op |-> "startDrag", healed |-> FALSE,
                          containerSize |-> GetContainerSizeDesktop]
            /\ UNCHANGED <<cropBox, isResizing, resizeHandle, initialCropBox>>
    /\ UNCHANGED <<envVars, image, rafQueue, uploadVars, watchTimers, crop, resetTimers,
                   gridVars, probe, settingsVars>>

\* mousedown / touchstart on a corner handle
StartResize(px, py, handle) ==
    /\ CropBoxVisible
    /\ count < MaxRequests
    /\ count' = count + 1
    /\ LET healed == Degenerate(cropBox)
           box == IF healed THEN SelfHealBox(I(GetContainerSizeDesktop)) ELSE cropBox
       IN  /\ UpdateCropBox(box)
           /\ isResizing' = TRUE
           /\ resizeHandle' = handle
           /\ initialCropBox' = box
           /\ dragStartPos' = [x |-> I(px), y |-> I(py)]
           /\ listeners' = Attach("resize")
           /\ lastOp' = [op |-> "startResize", healed |-> healed,
                         containerSize |-> GetContainerSizeDesktop]
    /\ UNCHANGED <<envVars, image, isDragging, rafQueue, uploadVars, watchTimers, crop,
                   resetTimers, gridVars, probe, settingsVars>>

\* handleDrag: the box its animation-frame callback will constrain and commit
DragBox(px, py) ==
    [cropBox EXCEPT !.x = RSub(I(px), dragStartPos.x), !.y = RSub(I(py), dragStartPos.y)]

\* a slip: every handle adjusts the box like the se handle, and a size below
\* minSize is floored by moving the edge the pointer holds back
ResizeBoxAsSouthEast(px, py) ==
    LET deltaX == RSub(I(px), dragStartPos.x)
        deltaY == RSub(I(py), dragStartPos.y)
        b == initialCropBox
    IN  Box(b.x, b.y, RMax(I(MinSize), RAdd(b.width, deltaX)),
            RMax(I(MinSize), RAdd(b.height, deltaY)))

\* a resize that adjusts the box now in the store instead of the snapshot
ResizeBoxFromStore(px, py) ==
    LET deltaX == RSub(I(px), dragStartPos.x)
        deltaY == RSub(I(py), dragStartPos.y)
        b == cropBox
        moved ==
            CASE resizeHandle = "nw" ->
                   Box(RAdd(b.x, deltaX), RAdd(b.y, deltaY),
                       RSub(b.width, deltaX), RSub(b.height, deltaY))
              [] resizeHandle = "ne" ->
                   Box(b.x, RAdd(b.y, deltaY),
                       RAdd(b.width, deltaX), RSub(b.height, deltaY))
              [] resizeHandle = "sw" ->
                   Box(RAdd(b.x, deltaX), b.y,
                       RSub(b.width, deltaX), RAdd(b.height, deltaY))
              [] resizeHandle = "se" ->
                   Box(b.x, b.y, RAdd(b.width, deltaX), RAdd(b.height, deltaY))
              [] OTHER -> b
    IN  [moved EXCEPT !.width  = IF RLt(@, I(MinSize)) THEN I(MinSize) ELSE @,
                      !.height = IF RLt(@, I(MinSize)) THEN I(MinSize) ELSE @]

\* handleResize: the box its animation-frame callback will constrain and commit
ResizeBox(px, py) ==
    LET deltaX == RSub(I(px), dragStartPos.x)
        deltaY == RSub(I(py), dragStartPos.y)
        b == initialCropBox
        moved ==
            CASE resizeHandle = "nw" ->
                   Box(RAdd(b.x, deltaX), RAdd(b.y, deltaY),
                       RSub(b.width, deltaX), RSub(b.height, deltaY))
              [] resizeHandle = "ne" ->
                   Box(b.x, RAdd(b.y, deltaY),
                       RAdd(b.width, deltaX), RSub(b.height, deltaY))
              [] resizeHandle = "sw" ->
                   Box(RAdd(b.x, deltaX), b.y,
                       RSub(b.width, deltaX), RAdd(b.height, deltaY))
              [] resizeHandle = "se" ->
                   Box(b.x, b.y, RAdd(b.width, deltaX), RAdd(b.height, deltaY))
              [] OTHER -> b
    IN  [moved EXCEPT !.width  = IF RLt(@, I(MinSize)) THEN I(MinSize) ELSE @,
                      !.height = IF RLt(@, I(MinSize)) THEN I(MinSize) ELSE @]

\* what one listener of mousemove / touchmove adds to the animation-frame queue
Scheduled(name, px, py) ==
    IF name = "drag"
    THEN (IF isDragging /\ DesktopContainerPresent THEN <<DragBox(px, py)>> ELSE <<>>)
    ELSE (IF isResizing THEN <<ResizeBox(px, py)>> ELSE <<>>)

RECURSIVE ScheduledAll(_, _, _)
ScheduledAll(ls, px, py) ==
    IF ls = <<>> THEN <<>>
    ELSE Scheduled(Head(ls), px, py) \o ScheduledAll(Tail(ls), px, py)

\* mousemove / touchmove on the document: handleDrag and handleResize, as attached
PointerMove(px, py) ==
    /\ listeners # <<>>
    /\ Len(rafQueue) + Len(listeners) <= MaxPending
    /\ rafQueue' = rafQueue \o ScheduledAll(listeners, px, py)
    /\ lastOp' = [op |-> "pointerMove", px |-> px, py |-> py]
    /\ UNCHANGED <<envVars, cropBox, image, gestureVars, uploadVars, watchTimers, crop,
                   resetTimers, gridVars, count, probe, settingsVars>>

\* mouseup / touchend on the document: stopDrag and stopResize, as attached
PointerUp ==
    /\ listeners # <<>>
    /\ isDragging' = IF Attached("drag") THEN FALSE ELSE isDragging
    /\ isResizing' = IF Attached("resize") THEN FALSE ELSE isResizing
    /\ resizeHandle' = IF Attached("resize") THEN "" ELSE resizeHandle
    /\ listeners' = <<>>
    /\ lastOp' = Other
    /\ UNCHANGED <<envVars, cropBox, image, dragStartPos, initialCropBox, rafQueue,
                   uploadVars, watchTimers, crop, resetTimers, gridVars, count, probe, settingsVars>>

\* touchcancel on the document: no listener is attached for it
PointerCancel ==
    /\ listeners # <<>>
    /\ lastOp' = [op |-> "pointerCancel"]
    /\ UNCHANGED <<envVars, cropBox, image, gestureVars, rafQueue, uploadVars, watchTimers,
                   crop, resetTimers, gridVars, count, probe, settingsVars>>

\* a slip: the callbacks of a frame run last requested first
RECURSIVE RunCallbacksReversed(_, _)
RunCallbacksReversed(q, box) ==
    IF q = <<>> THEN box
    ELSE RunCallbacksReversed(SubSeq(q, 1, Len(q) - 1),
                              ConstrainCropBox(q[Len(q)], I(GetContainerSizeDesktop)))

\* the callbacks of one animation frame, in the order they were requested
RECURSIVE RunCallbacks(_, _)
RunCallbacks(q, box) ==
    IF q = <<>> THEN box
    ELSE RunCallbacks(Tail(q), ConstrainCropBox(Head(q), I(GetContainerSizeDesktop)))

AnimationFrame ==
    /\ rafQueue # <<>>
    /\ UpdateCropBox(RunCallbacks(rafQueue, cropBox))
    /\ rafQueue' = <<>>
    /\ lastOp' = IF lastOp.op \in {"reset", "frameAfterReset"}
                 THEN [op |-> "frameAfterReset"] ELSE [op |-> "frame"]
    /\ UNCHANGED <<envVars, image, gestureVars, uploadVars, watchTimers, crop,
                   resetTimers, gridVars, count, probe, settingsVars>>

(***************************************************************************)
(* Upload (useImageUpload.handleFileUpload) and the hasImage watcher.      *)
(***************************************************************************)
\* a file is dropped or selected; the upload area exists while no image is loaded
UploadStart(file) ==
    /\ ~HasImage
    /\ upload.pc = "idle"
    /\ watchTimers = 0
    /\ count < MaxRequests
    /\ count' = count + 1
    /\ isUploading' = TRUE
    /\ uploadError' = FALSE
    /\ upload' = [pc |-> "reading", file |-> file]
    /\ lastOp' = Other
    /\ UNCHANGED <<envVars, cropBox, image, gestureVars, rafQueue, watchTimers, crop,
                   resetTimers, gridVars, probe, settingsVars>>

\* validateFile, createImageUrl and getImageDimensions have settled
UploadSettle ==
    /\ upload.pc = "reading"
    /\ IF UploadOutcome(upload.file) = "ok"
       THEN /\ SetImage([url |-> <<upload.file.width, upload.file.height>>,
                         width |-> upload.file.width, height |-> upload.file.height])
            /\ upload' = [upload EXCEPT !.pc = "waitDom"]
            /\ lastOp' = Other
            /\ UNCHANGED <<isUploading, uploadError>>
       ELSE /\ uploadError' = TRUE
            /\ isUploading' = FALSE
            /\ upload' = Idle
            /\ lastOp' = [op |-> "uploadFailed", returned |-> FALSE,
                          why |-> UploadOutcome(upload.file)]
            /\ UNCHANGED <<image, watchTimers>>
    /\ UNCHANGED <<envVars, cropBox, gestureVars, rafQueue, crop, resetTimers, gridVars,
                   count, probe, settingsVars>>

\* 100 ms later: the crop box around the displayed image, from the local dimensions
UploadContinue ==
    /\ upload.pc = "waitDom"
    /\ UpdateCropBox(UploadBox(I(GetContainerSizeUpload), upload.file.width,
                               upload.file.height))
    /\ isUploading' = FALSE
    /\ upload' = Idle
    /\ lastOp' = Other
    /\ UNCHANGED <<envVars, image, gestureVars, rafQueue, uploadError, watchTimers, crop,
                   resetTimers, gridVars, count, probe, settingsVars>>

\* the watcher's timer: adjustCropBoxToImageMobile(), then adjustCropBoxToImageDesktop(),
\* which writes all four fields.  Its timer is set after the upload's own 100 ms timer.
WatchTimer ==
    /\ watchTimers > 0
    /\ upload.pc # "waitDom"
    /\ watchTimers' = watchTimers - 1
    /\ IF HasImage
       THEN UpdateCropBox(AdjustBox(I(GetContainerSizeDesktop), image.width, image.height))
       ELSE UNCHANGED cropBox
    /\ lastOp' = [op |-> "watchTimer"]
    /\ UNCHANGED <<envVars, image, gestureVars, rafQueue, uploadVars, crop, resetTimers,
                   gridVars, count, probe, settingsVars>>

\* clearImage: the button sits in the preview container
ClearImage ==
    /\ HasImage
    /\ count < MaxRequests
    /\ count' = count + 1
    /\ SetImage(NoImage)
    /\ uploadError' = FALSE
    /\ lastOp' = Other
    /\ UNCHANGED <<envVars, cropBox, gestureVars, rafQueue, upload, isUploading, crop,
                   resetTimers, gridVars, probe, settingsVars>>

(***************************************************************************)
(* Crop (handleCropImage, cropImageFree, setCropBoxToFullImage).           *)
(***************************************************************************)
\* the raster cropImageFree returns: displayInfo is computed after the image has
\* loaded, from the store's image and the container as they are then.  With the image
\* cleared meanwhile the dimensions are 0/0: every number is NaN and the canvas is 0 x 0.
\* a slip: the conversion reads the crop box of the store, not its argument
CroppedRasterOfStore(box) ==
    IF ~HasImage THEN IBox(0, 0, 0, 0)
    ELSE ActualCropBox(cropBox, GetImageDisplayInfo(I(GetContainerSizeProcessor),
                                                    image.width, image.height))

CroppedRaster(box) ==
    IF ~HasImage THEN IBox(0, 0, 0, 0)
    ELSE ActualCropBox(box, GetImageDisplayInfo(I(GetContainerSizeProcessor),
                                                image.width, image.height))

\* click on the crop button: the guards of handleCropImage, then cropImageFree up to
\* its await of the image load
CropRequest ==
    /\ crop.pc = "idle"
    /\ count < MaxRequests
    /\ count' = count + 1
    /\ IF ~HasImage
       THEN /\ lastOp' = [op |-> "cropFailed", why |-> "noImage"]
            /\ UNCHANGED crop
       ELSE IF Degenerate(cropBox)
       THEN /\ lastOp' = [op |-> "cropFailed", why |-> "invalidCropBox"]
            /\ UNCHANGED crop
       ELSE /\ crop' = [pc |-> "loading", cropBox |-> cropBox, url |-> image.url]
            /\ lastOp' = Other
    /\ UNCHANGED <<envVars, cropBox, image, gestureVars, rafQueue, uploadVars, watchTimers,
                   resetTimers, gridVars, probe, settingsVars>>

\* a slip: the reset is scheduled when cropImageFree resolves, before the cropped
\* image has been decoded and stored
CropImageFreeSchedulesReset(outcome) ==
    /\ crop.pc = "loading"
    /\ IF outcome = "ok"
       THEN LET actualCropBox == CroppedRaster(crop.cropBox)
            IN  /\ crop' = [crop EXCEPT !.pc = "decoding",
                                        !.url = <<actualCropBox.width[1], actualCropBox.height[1]>>]
                /\ resetTimers' = resetTimers + 1
                /\ lastOp' = [op |-> "cropImageFree", outcome |-> "resolved",
                              actualCropBox |-> actualCropBox]
       ELSE /\ crop' = Idle
            /\ resetTimers' = resetTimers
            /\ lastOp' = [op |-> "cropFailed", why |-> outcome]
    /\ UNCHANGED <<envVars, cropBox, image, gestureVars, rafQueue, uploadVars, watchTimers,
                   gridVars, count, probe, settingsVars>>

\* loadImageToCanvas settles and cropImageFree runs to its end
CropImageFree(outcome) ==
    /\ crop.pc = "loading"
    /\ IF outcome = "ok"
       THEN LET actualCropBox == CroppedRaster(crop.cropBox)
            IN  /\ crop' = [crop EXCEPT !.pc = "decoding",
                                        !.url = <<actualCropBox.width[1], actualCropBox.height[1]>>]
                /\ lastOp' = [op |-> "cropImageFree", outcome |-> "resolved",
                              actualCropBox |-> actualCropBox]
       ELSE /\ crop' = Idle
            /\ lastOp' = [op |-> "cropFailed", why |-> outcome]
    /\ UNCHANGED <<envVars, cropBox, image, gestureVars, rafQueue, uploadVars, watchTimers,
                   resetTimers, gridVars, count, probe, settingsVars>>

\* a slip: onerror stores the result like onload
CropDecodedStoresFailed ==
    /\ crop.pc = "decoding"
    /\ SetImage([url |-> crop.url, width |-> crop.url[1], height |-> crop.url[2]])
    /\ resetTimers' = resetTimers + 1
    /\ lastOp' = IF crop.url[1] > 0 /\ crop.url[2] > 0 THEN Other
                 ELSE [op |-> "cropFailed", why |-> "decode"]
    /\ crop' = Idle
    /\ UNCHANGED <<envVars, cropBox, gestureVars, rafQueue, uploadVars, gridVars, count,
                   probe, settingsVars>>

\* the Image made from the cropped data URL settles: onload or onerror
CropDecoded ==
    /\ crop.pc = "decoding"
    /\ IF crop.url[1] > 0 /\ crop.url[2] > 0
       THEN /\ SetImage([url |-> crop.url, width |-> crop.url[1], height |-> crop.url[2]])
            /\ resetTimers' = resetTimers + 1
            /\ lastOp' = Other
       ELSE /\ lastOp' = [op |-> "cropFailed", why |-> "decode"]
            /\ UNCHANGED <<image, watchTimers, resetTimers>>
    /\ crop' = Idle
    /\ UNCHANGED <<envVars, cropBox, gestureVars, rafQueue, uploadVars, gridVars, count,
                   probe, settingsVars>>

\* setCropBoxToFullImage, 100 ms after the cropped image was stored
ResetTimer ==
    /\ resetTimers > 0
    /\ resetTimers' = resetTimers - 1
    /\ IF HasImage
       THEN UpdateCropBox(FullImageBox(I(GetContainerSizeReset), image.width, image.height))
       ELSE UNCHANGED cropBox
    /\ lastOp' = [op |-> "reset"]
    /\ UNCHANGED <<envVars, image, gestureVars, rafQueue, uploadVars, watchTimers, crop,
                   gridVars, count, probe, settingsVars>>

(***************************************************************************)
(* Grid-puzzle download (downloadCompletePuzzle, createCompletePuzzle,     *)
(* createGridPuzzle).                                                      *)
(***************************************************************************)
\* click on the download button (disabled without an image and while isProcessing)
DownloadRequest ==
    /\ HasImage
    /\ ~isProcessing
    /\ grid.pc = "idle"
    /\ count < MaxRequests
    /\ count' = count + 1
    /\ isProcessing' = TRUE
    /\ grid' = [pc |-> "loading", cropBox |-> cropBox]
    /\ lastOp' = Other
    /\ UNCHANGED <<envVars, cropBox, image, gestureVars, rafQueue, uploadVars, watchTimers,
                   crop, resetTimers, procTimers, probe, settingsVars>>

\* loadImageToCanvas settles, createGridPuzzle runs to its end and the file is offered;
\* the finally blocks of createGridPuzzle and downloadCompletePuzzle each set a timer
CreateGridPuzzle(outcome) ==
    /\ grid.pc = "loading"
    /\ grid' = Idle
    /\ procTimers' = procTimers + 2
    /\ lastOp' = IF outcome = "ok"
                 THEN [op |-> "downloadDone", actualCropBox |-> CroppedRaster(grid.cropBox)]
                 ELSE [op |-> "downloadFailed", why |-> outcome]
    /\ UNCHANGED <<envVars, cropBox, image, gestureVars, rafQueue, uploadVars, watchTimers,
                   crop, resetTimers, isProcessing, count, probe, settingsVars>>

\* a timer of a finally block: isProcessing = false
ProcTimer ==
    /\ procTimers > 0
    /\ procTimers' = procTimers - 1
    /\ isProcessing' = FALSE
    /\ lastOp' = Other
    /\ UNCHANGED <<envVars, cropBox, image, gestureVars, rafQueue, uploadVars, watchTimers,
                   crop, resetTimers, grid, count, probe, settingsVars>>

(***************************************************************************)
(* The window is resized or the device turned: innerWidth and the side of  *)
(* the displayed container change.  The resize listener of the view        *)
(* (checkScreenSize) only recomputes isMobile, which the model reads from   *)
(* innerWidth.                                                             *)
(***************************************************************************)
ViewportChange(w, s) ==
    /\ count < MaxRequests
    /\ <<w, s>> # <<innerWidth, side>>
    /\ count' = count + 1
    /\ innerWidth' = w
    /\ side' = s
    /\ lastOp' = Other
    /\ UNCHANGED <<cropBox, image, gestureVars, rafQueue, uploadVars, watchTimers, crop,
                   resetTimers, gridVars, probe, settingsVars>>

AsyncOutcomes == {"ok", "loadError", "noContext"}

Next ==
    \/ \E p \in PointerDowns : StartDrag(p[1], p[2])
    \/ \E p \in PointerDowns, h \in Handles : StartResize(p[1], p[2], h)
    \/ \E p \in PointerMoves : PointerMove(p[1], p[2])
    \/ PointerUp
    \/ AnimationFrame
    \/ \E file \in UploadFiles : UploadStart(file)
    \/ UploadSettle
    \/ UploadContinue
    \/ WatchTimer
    \/ ClearImage
    \/ CropRequest
    \/ \E outcome \in AsyncOutcomes : CropImageFree(outcome)
    \/ CropDecoded
    \/ ResetTimer
    \/ DownloadRequest
    \/ \E outcome \in AsyncOutcomes : CreateGridPuzzle(outcome)
    \/ ProcTimer
    \/ \E w \in ViewportWidths, s \in ContainerSides : ViewportChange(w, s)

Spec == Init /\ [][Next]_vars

(***************************************************************************)
(* constrainCropBox on its own: every box and container size of the input  *)
(* sets, constrained once and then once more.                              *)
(***************************************************************************)
\* container sizes: a hidden container (0), one smaller than minSize, minSize,
\* the default, a fractional measurement, the CSS maximum
ConstrainContainers == {I(0), I(40), I(MinSize), I(400), Q(901, 2), I(500)}
ConstrainPositions == {I(-60), I(0), Q(941, 2)}
ConstrainExtents == {I(-6), I(30), I(200), I(520)}

ConstrainInit ==
    /\ MainInit
    /\ innerWidth = 1280
    /\ side = 400
    /\ \E cs \in ConstrainContainers, x \in ConstrainPositions, y \in ConstrainPositions,
          w \in ConstrainExtents, h \in ConstrainExtents :
          probe = [fn |-> "constrainCropBox", stage |-> "input", containerSize |-> cs,
                   box |-> Box(x, y, w, h), once |-> NoBox, twice |-> NoBox]

ApplyConstrain ==
    /\ probe.fn = "constrainCropBox"
    /\ probe.stage = "input"
    /\ probe' = [probe EXCEPT !.stage = "once",
                              !.once = ConstrainCropBox(probe.box, probe.containerSize)]
    /\ UNCHANGED mainVars

ApplyConstrainAgain ==
    /\ probe.fn = "constrainCropBox"
    /\ probe.stage = "once"
    /\ probe' = [probe EXCEPT !.stage = "twice",
                              !.twice = ConstrainCropBox(probe.once, probe.containerSize)]
    /\ UNCHANGED mainVars

ConstrainNext == ApplyConstrain \/ ApplyConstrainAgain

SpecConstrain == ConstrainInit /\ [][ConstrainNext]_vars

(***************************************************************************)
(* The display mapping and the source rectangle on their own.              *)
(***************************************************************************)
GeomContainers == {I(1), I(400), Q(901, 2), I(500)}
GeomImageSides == {1, 10, 500, 1000}
GeomPositions == {I(-10), I(0), Q(281, 2), I(450)}
GeomExtents == {I(1), I(50), Q(601, 2), I(600)}

\* one more box, of a wide image in a container of 500: it starts in the upper bar
GeomBars == {I(100)}
GeomBarExtents == {I(100), I(200)}

GeomInit ==
    /\ MainInit
    /\ innerWidth = 1280
    /\ side = 400
    /\ \/ \E cs \in GeomContainers, iw \in GeomImageSides, ih \in GeomImageSides,
             x \in GeomPositions, y \in GeomPositions, w \in GeomExtents, h \in GeomExtents :
             probe = [fn |-> "geometry", stage |-> "input", containerSize |-> cs,
                      imageWidth |-> iw, imageHeight |-> ih, box |-> Box(x, y, w, h),
                      displayInfo |-> GetImageDisplayInfo(I(1), 1, 1),
                      actualCropBox |-> NoBox]
       \/ \E cs \in GeomContainers, iw \in GeomImageSides, ih \in GeomImageSides,
             x \in GeomBars, y \in GeomBars, w \in GeomBarExtents, h \in GeomBarExtents :
             probe = [fn |-> "geometry", stage |-> "input", containerSize |-> cs,
                      imageWidth |-> iw, imageHeight |-> ih, box |-> Box(x, y, w, h),
                      displayInfo |-> GetImageDisplayInfo(I(1), 1, 1),
                      actualCropBox |-> NoBox]

ApplyDisplayInfo ==
    /\ probe.fn = "geometry"
    /\ probe.stage = "input"
    /\ probe' = [probe EXCEPT !.stage = "displayInfo",
                              !.displayInfo = GetImageDisplayInfo(probe.containerSize,
                                                                  probe.imageWidth,
                                                                  probe.imageHeight)]
    /\ UNCHANGED mainVars

ApplyActualCropBox ==
    /\ probe.fn = "geometry"
    /\ probe.stage = "displayInfo"
    /\ probe' = [probe EXCEPT !.stage = "actualCropBox",
                              !.actualCropBox = ActualCropBox(probe.box, probe.displayInfo)]
    /\ UNCHANGED mainVars

GeomNext == ApplyDisplayInfo \/ ApplyActualCropBox

SpecGeom == GeomInit /\ [][GeomNext]_vars

(***************************************************************************)
(* The gestures on their own: pointer events on the crop box and on each   *)
(* of its four handles, from the state an upload and its follow-up         *)
(* callbacks leave on a desktop window.                                    *)
(***************************************************************************)
AllHandles == {"nw", "ne", "sw", "se"}
\* pointer positions of the move events: 10 px down-right and up-left of the
\* pointer-down, 160 px down, and far down-right outside the container
GestureMoves == {<<260, 260>>, <<240, 240>>, <<250, 410>>, <<700, 700>>}

GestureInit ==
    /\ innerWidth = 1280
    /\ side \in ContainerSides
    /\ \E size \in UploadSizes :
          /\ image = [url |-> size, width |-> size[1], height |-> size[2]]
          /\ cropBox = AdjustBox(I(side), size[1], size[2])
    /\ gridSize = "3x3"
    /\ parameters = [borderWidth |-> Num(I(3)), borderColor |-> "#FFFFFF"]
    /\ filter = "none"
    /\ isDragging = FALSE
    /\ isResizing = FALSE
    /\ dragStartPos = [x |-> I(0), y |-> I(0)]
    /\ resizeHandle = ""
    /\ initialCropBox = NoBox
    /\ listeners = <<>>
    /\ rafQueue = <<>>
    /\ upload = Idle
    /\ isUploading = FALSE
    /\ uploadError = FALSE
    /\ watchTimers = 0
    /\ crop = Idle
    /\ resetTimers = 0
    /\ grid = Idle
    /\ isProcessing = FALSE
    /\ procTimers = 0
    /\ count = 1
    /\ lastOp = [op |-> "watchTimer"]
    /\ probe = NoProbe

GestureNext ==
    \/ \E p \in PointerDowns : StartDrag(p[1], p[2])
    \/ \E p \in PointerDowns, h \in AllHandles : StartResize(p[1], p[2], h)
    \/ \E p \in GestureMoves : PointerMove(p[1], p[2])
    \/ PointerUp
    \/ PointerCancel
    \/ AnimationFrame

SpecGesture == GestureInit /\ [][GestureNext]_vars

(***************************************************************************)
(* The settings of the store and the controls of the view that write them. *)
(***************************************************************************)
\* type GridSize, and the sizes the grid buttons offer
GridSizeType == {"2x2", "3x3", "4x4", "5x5"}

GridConfigs ==
    [size \in GridSizeType |->
        CASE size = "2x2" -> [rows |-> 2, cols |-> 2, total |-> 4]
          [] size = "3x3" -> [rows |-> 3, cols |-> 3, total |-> 9]
          [] size = "4x4" -> [rows |-> 4, cols |-> 4, total |-> 16]
          [] size = "5x5" -> [rows |-> 5, cols |-> 5, total |-> 25]]

CurrentGridConfig == GridConfigs[gridSize]

FilterTypes == {"none", "grayscale", "vintage_film", "cinema_bw", "vivid", "warm_tone",
                "cool_tone", "dreamy_blur", "neon_glow", "japanese_fresh", "urban_night",
                "soft_vintage"}
PresetColors == {"#FFFFFF", "#000000", "#FF0000", "#00FF00", "#0000FF", "#FFFF00"}

\* click on a grid button
SetGridSize(size) ==
    /\ gridSize' = size
    /\ lastOp' = Other
    /\ UNCHANGED <<envVars, cropBox, image, gestureVars, rafQueue, uploadVars, watchTimers,
                   crop, resetTimers, gridVars, count, parameters, filter, probe>>

\* the border-width slider of the desktop panel, bound with v-model.number
SetBorderWidthDesktop(n) ==
    /\ innerWidth >= DesktopBreakpoint
    /\ parameters' = [parameters EXCEPT !.borderWidth = Num(I(n))]
    /\ lastOp' = Other
    /\ UNCHANGED <<envVars, cropBox, image, gestureVars, rafQueue, uploadVars, watchTimers,
                   crop, resetTimers, gridVars, count, gridSize, filter, probe>>

\* the border-width slider of the mobile panel, bound with v-model: a string
SetBorderWidthMobile(n) ==
    /\ innerWidth < DesktopBreakpoint
    /\ parameters' = [parameters EXCEPT !.borderWidth = Str(ToString(n))]
    /\ lastOp' = Other
    /\ UNCHANGED <<envVars, cropBox, image, gestureVars, rafQueue, uploadVars, watchTimers,
                   crop, resetTimers, gridVars, count, gridSize, filter, probe>>

\* click on a preset colour: updateParameters({ borderColor })
UpdateParameters(color) ==
    /\ innerWidth >= DesktopBreakpoint
    /\ parameters' = [parameters EXCEPT !.borderColor = color]
    /\ lastOp' = Other
    /\ UNCHANGED <<envVars, cropBox, image, gestureVars, rafQueue, uploadVars, watchTimers,
                   crop, resetTimers, gridVars, count, gridSize, filter, probe>>

\* click on a filter button
SetFilter(filterType) ==
    /\ filter' = filterType
    /\ lastOp' = Other
    /\ UNCHANGED <<envVars, cropBox, image, gestureVars, rafQueue, uploadVars, watchTimers,
                   crop, resetTimers, gridVars, count, gridSize, parameters, probe>>

StoreNext ==
    \/ \E size \in GridSizeType : SetGridSize(size)
    \/ \E n \in 0..SliderMax : SetBorderWidthDesktop(n)
    \/ \E n \in 1..SliderMax : SetBorderWidthMobile(n)
    \/ \E color \in PresetColors : UpdateParameters(color)
    \/ \E filterType \in FilterTypes : SetFilter(filterType)

\* the settings alone: they neither read nor write the crop box or the image
SpecStore == Init /\ [][StoreNext]_vars

(***************************************************************************)
(* cropImageFree called more than once, with the store and the page        *)
(* changing in between.  A raster is described by what it was drawn from.  *)
(***************************************************************************)
MaxRuns == 2
CropArguments == {IBox(100, 100, 200, 100), IBox(0, 0, 500, 500)}
CropFilters == {"none", "grayscale"}

CropTwiceInit ==
    /\ MainInit
    /\ probe = [fn |-> "cropImageFree", pending |-> <<>>, runs |-> <<>>]

\* cropImageFree(box) up to its await of loadImageToCanvas(store.image.url)
CropImageFreeCall(box) ==
    /\ probe.fn = "cropImageFree"
    /\ probe.pending = <<>>
    /\ Len(probe.runs) < MaxRuns
    /\ HasImage
    /\ probe' = [probe EXCEPT !.pending = <<[cropBox |-> box, url |-> image.url]>>]
    /\ UNCHANGED mainVars

\* the image load settles; applyFilter, getImageDisplayInfo, the conversion,
\* drawImage and toDataURL
CropImageFreeResume(outcome) ==
    /\ probe.fn = "cropImageFree"
    /\ probe.pending # <<>>
    /\ LET call == probe.pending[1]
           actualCropBox == CroppedRaster(call.cropBox)
           run == [url |-> call.url, cropBox |-> call.cropBox,
                   imageWidth |-> image.width, imageHeight |-> image.height,
                   containerSize |-> GetContainerSizeProcessor, filter |-> filter,
                   storeCropBox |-> cropBox,
                   actualCropBox |-> actualCropBox,
                   raster |-> [source |-> call.url, filter |-> filter,
                               rect |-> actualCropBox]]
       IN  probe' = [probe EXCEPT !.pending = <<>>,
                                  !.runs = IF outcome = "ok" THEN Append(@, run) ELSE @]
    /\ UNCHANGED mainVars

CropTwiceNext ==
    \/ \E file \in UploadFiles : UploadStart(file)
    \/ UploadSettle
    \/ UploadContinue
    \/ WatchTimer
    \/ \E filterType \in CropFilters : SetFilter(filterType)
    \/ \E w \in ViewportWidths, s \in ContainerSides : ViewportChange(w, s)
    \/ \E box \in CropArguments : CropImageFreeCall(box)
    \/ \E outcome \in AsyncOutcomes : CropImageFreeResume(outcome)

SpecCropTwice == CropTwiceInit /\ [][CropTwiceNext]_vars

(***************************************************************************)
(* Uploads of files of every kind, one after the other (the upload zone is *)
(* shown only while no image is stored).                                   *)
(***************************************************************************)
UploadNext ==
    \/ \E file \in UploadCandidates : UploadStart(file)
    \/ UploadSettle
    \/ UploadContinue
    \/ WatchTimer
    \/ ClearImage

SpecUpload == Init /\ [][UploadNext]_vars

(***************************************************************************)
(* A call of cropImageFree among the other operations of the page.  The    *)
(* crop button is disabled only without an image, and every click makes an *)
(* image processor of its own, so a crop can be started while another is   *)
(* in flight; the clear button stays in the preview container.  The        *)
(* observed call is the one recorded in probe; the other crop is the one   *)
(* of the page.                                                            *)
(***************************************************************************)
\* an image has been uploaded and the watcher's timer has run
CropRaceInit ==
    /\ innerWidth = 1280
    /\ side \in ContainerSides
    /\ \E size \in UploadSizes :
          /\ image = [url |-> size, width |-> size[1], height |-> size[2]]
          /\ cropBox = AdjustBox(I(side), size[1], size[2])
    /\ gridSize = "3x3"
    /\ parameters = [borderWidth |-> Num(I(3)), borderColor |-> "#FFFFFF"]
    /\ filter = "none"
    /\ isDragging = FALSE
    /\ isResizing = FALSE
    /\ dragStartPos = [x |-> I(0), y |-> I(0)]
    /\ resizeHandle = ""
    /\ initialCropBox = NoBox
    /\ listeners = <<>>
    /\ rafQueue = <<>>
    /\ upload = Idle
    /\ isUploading = FALSE
    /\ uploadError = FALSE
    /\ watchTimers = 0
    /\ crop = Idle
    /\ resetTimers = 0
    /\ grid = Idle
    /\ isProcessing = FALSE
    /\ procTimers = 0
    /\ count = 1
    /\ lastOp = [op |-> "watchTimer"]
    /\ probe = [fn |-> "cropImageFree", pending |-> <<>>, runs |-> <<>>]

CropRaceNext ==
    \/ \E file \in UploadFiles : UploadStart(file)
    \/ UploadSettle
    \/ UploadContinue
    \/ WatchTimer
    \/ ClearImage
    \/ CropRequest
    \/ \E outcome \in AsyncOutcomes : CropImageFree(outcome)
    \/ CropDecoded
    \/ ResetTimer
    \/ \E box \in CropArguments : CropImageFreeCall(box)
    \/ \E outcome \in AsyncOutcomes : CropImageFreeResume(outcome)

SpecCropRace == CropRaceInit /\ [][CropRaceNext]_vars

(***************************************************************************)
(* createGridPuzzle and createCompletePuzzle on their own.                 *)
(***************************************************************************)
\* a slip: the check typeof v !== 'number', which lets NaN through
RejectsBorderWidthByType(borderWidth) == borderWidth.t \notin {"number", "NaN"}

\* if (isNaN(Number(parameters.borderWidth))) throw
RejectsBorderWidth(borderWidth) == IsNaN(ToNumber(borderWidth))

\* the optional cropBox argument
NoCropBox == [given |-> FALSE, box |-> NoBox]
CropBoxArg(box) == [given |-> TRUE, box |-> box]

\* a slip: the scale of the whole image used also when a crop box is given
ScaleRatioOfImage(arg, displayInfo, imageWidth) ==
    RDiv(I(imageWidth), displayInfo.displayWidth)

\* scaleRatio: source pixels per display pixel
ScaleRatio(arg, displayInfo, imageWidth) ==
    IF arg.given
    THEN RDiv(ActualCropBox(arg.box, displayInfo).width, arg.box.width)
    ELSE RDiv(I(imageWidth), displayInfo.displayWidth)

\* targetCanvas: the cropped canvas, or the whole filtered image
TargetCanvas(arg, displayInfo, imageWidth, imageHeight) ==
    IF arg.given
    THEN [width  |-> ActualCropBox(arg.box, displayInfo).width[1],
          height |-> ActualCropBox(arg.box, displayInfo).height[1]]
    ELSE [width |-> imageWidth, height |-> imageHeight]

\* a slip: the loops run to i <= n, one band on the far edge
LoopCountInclusive(n) == IF RLt(n, I(1)) THEN 0 ELSE n[1] \div n[2]

\* how often the body of for (let i = 1; i < n; i++) runs
LoopCount(n) == IF RLe(n, I(1)) THEN 0 ELSE (-((-n[1]) \div n[2])) - 1

\* a slip: each band starts on its cell boundary instead of straddling it
GridBandsFromBoundary(rows, cols, canvas, lineWidth) ==
    [vertical |->
        [i \in 1..LoopCount(cols) |->
            Box(RMul(I(i), RDiv(I(canvas.width), cols)), I(0),
                lineWidth, I(canvas.height))],
     horizontal |->
        [i \in 1..LoopCount(rows) |->
            Box(I(0), RMul(I(i), RDiv(I(canvas.height), rows)),
                I(canvas.width), lineWidth)]]

\* the fillRect calls of the two loops
GridBands(rows, cols, canvas, lineWidth) ==
    LET cellWidth  == RDiv(I(canvas.width), cols)
        cellHeight == RDiv(I(canvas.height), rows)
        halfWidth  == RDiv(lineWidth, I(2))
    IN  [vertical |->
            [i \in 1..LoopCount(cols) |->
                Box(RSub(RMul(I(i), cellWidth), halfWidth), I(0),
                    lineWidth, I(canvas.height))],
         horizontal |->
            [i \in 1..LoopCount(rows) |->
                Box(I(0), RSub(RMul(I(i), cellHeight), halfWidth),
                    I(canvas.width), lineWidth)]]

\* rows and cols of the grid configurations: the four of gridConfigs, one row or
\* column, and values outside the domain
GridCounts == {I(0), I(1), I(2), I(3), I(5), Q(5, 2)}
BorderWidths == {Num(I(3)), Num(I(0)), Num(I(-3)), NaN, Undefined, Str("5"), Str("abc")}
GridCropBoxes == {IBox(100, 100, 200, 100), IBox(0, 0, 500, 500), IBox(3, 3, -6, -6)}
GridImages == {<<1000, 500>>, <<100, 1000>>}
GridContainers == {I(400), I(500)}

NoBands == [vertical |-> <<>>, horizontal |-> <<>>]

GridInit ==
    /\ MainInit
    /\ innerWidth = 1280
    /\ side = 400
    /\ \E rows \in GridCounts, cols \in GridCounts, bw \in BorderWidths,
          cb \in {NoCropBox} \cup {CropBoxArg(b) : b \in GridCropBoxes},
          img \in GridImages, cs \in GridContainers,
          entry \in {"createGridPuzzle", "createCompletePuzzle"} :
          /\ entry = "createCompletePuzzle" => cb.given
          /\ probe = [fn |-> "createGridPuzzle", stage |-> "called", entry |-> entry,
                      gridConfig |-> [rows |-> rows, cols |-> cols],
                      borderWidth |-> bw, cropBox |-> cb, containerSize |-> cs,
                      imageWidth |-> img[1], imageHeight |-> img[2],
                      loaded |-> FALSE, canvases |-> 0, outcome |-> "pending",
                      lineWidth |-> I(0), bands |-> NoBands]

\* the parameter check of createCompletePuzzle and of createGridPuzzle
GridValidateParameters ==
    /\ probe.fn = "createGridPuzzle"
    /\ probe.stage = "called"
    /\ probe' = IF RejectsBorderWidth(probe.borderWidth)
                THEN [probe EXCEPT !.stage = "done", !.outcome = "rejected"]
                ELSE [probe EXCEPT !.stage = "loading"]
    /\ UNCHANGED mainVars

\* await loadImageToCanvas(store.image.url)
GridLoadImage(outcome) ==
    /\ probe.fn = "createGridPuzzle"
    /\ probe.stage = "loading"
    /\ probe' = IF outcome = "ok"
                THEN [probe EXCEPT !.stage = "rendering", !.loaded = TRUE, !.canvases = 1]
                ELSE [probe EXCEPT !.stage = "done", !.loaded = TRUE,
                                   !.canvases = IF outcome = "noContext" THEN 1 ELSE 0,
                                   !.outcome = "rejected"]
    /\ UNCHANGED mainVars

\* the rest of createGridPuzzle: crop, scale ratio, grid canvas, bands, toDataURL
GridRender ==
    /\ probe.fn = "createGridPuzzle"
    /\ probe.stage = "rendering"
    /\ LET displayInfo == GetImageDisplayInfo(probe.containerSize, probe.imageWidth,
                                              probe.imageHeight)
           scaleRatio == ScaleRatio(probe.cropBox, displayInfo, probe.imageWidth)
           lineWidth == RMul(ToNumber(probe.borderWidth).v, scaleRatio)
           canvas == TargetCanvas(probe.cropBox, displayInfo, probe.imageWidth,
                                  probe.imageHeight)
       IN  probe' = [probe EXCEPT !.stage = "done", !.outcome = "resolved",
                                  !.canvases = IF probe.cropBox.given THEN 4 ELSE 3,
                                  !.lineWidth = lineWidth,
                                  !.bands = GridBands(probe.gridConfig.rows,
                                                      probe.gridConfig.cols,
                                                      canvas, lineWidth)]
    /\ UNCHANGED mainVars

GridNext ==
    \/ GridValidateParameters
    \/ \E outcome \in AsyncOutcomes : GridLoadImage(outcome)
    \/ GridRender

SpecGrid == GridInit /\ [][GridNext]_vars

(***************************************************************************)
(* Properties.                                                             *)
(***************************************************************************)
InsideContainer(box, containerSize) ==
    /\ RLe(I(0), box.x)
    /\ RLe(I(0), box.y)
    /\ RLe(RAdd(box.x, box.width), containerSize)
    /\ RLe(RAdd(box.y, box.height), containerSize)

AtLeastMinSize(box) == RLe(I(MinSize), box.width) /\ RLe(I(MinSize), box.height)

\* C1, as stated: for every input box and every measured container size, the box
\* constrainCropBox returns has x >= 0, y >= 0, x + width <= containerSize,
\* y + height <= containerSize, width >= 50 and height >= 50.
C1_EveryContainer ==
    probe.fn = "constrainCropBox" /\ probe.stage # "input"
    => InsideContainer(probe.once, probe.containerSize) /\ AtLeastMinSize(probe.once)

\* C1, amended: for every input box and every container size of at least 50, the box
\* constrainCropBox returns lies inside the container and is at least 50 x 50.
C1_ContainerAtLeastMinSize ==
    probe.fn = "constrainCropBox" /\ probe.stage # "input"
    /\ RLe(I(MinSize), probe.containerSize)
    => InsideContainer(probe.once, probe.containerSize) /\ AtLeastMinSize(probe.once)

\* constrainCropBox has moved and shrunk a box that stuck out of a container of 400
C1_Witness ==
    /\ probe.fn = "constrainCropBox" /\ probe.stage = "once"
    /\ probe.containerSize = I(400)
    /\ probe.box = Box(Q(941, 2), I(-60), I(520), I(30))
    /\ probe.once = IBox(0, 0, 400, 50)

\* C4: constrainCropBox is idempotent: for every box and a fixed container size,
\* constraining the constrained box returns it unchanged, field by field.
C4_Idempotent ==
    probe.fn = "constrainCropBox" /\ probe.stage = "twice"
    => /\ probe.twice.x = probe.once.x
       /\ probe.twice.y = probe.once.y
       /\ probe.twice.width = probe.once.width
       /\ probe.twice.height = probe.once.height

\* the second application has run on a box the first application had changed
C4_Witness ==
    /\ probe.fn = "constrainCropBox" /\ probe.stage = "twice"
    /\ probe.once # probe.box
    /\ probe.twice = probe.once

\* C7: for every crop box of positive width and height and every image of positive
\* dimensions, the source rectangle of the crop and grid operations lies inside the
\* source image, also when the box overlaps the letterbox bars or is larger than the
\* displayed image.
C7_SourceRectInsideImage ==
    probe.fn = "geometry" /\ probe.stage = "actualCropBox"
    => /\ RLe(I(0), probe.actualCropBox.x)
       /\ RLe(I(0), probe.actualCropBox.y)
       /\ RLe(RAdd(probe.actualCropBox.x, probe.actualCropBox.width), I(probe.imageWidth))
       /\ RLe(RAdd(probe.actualCropBox.y, probe.actualCropBox.height), I(probe.imageHeight))

\* a box wider than the displayed image, starting in the letterbox bar, has been mapped
\* to a source rectangle that is not empty
C7_Witness ==
    /\ probe.fn = "geometry" /\ probe.stage = "actualCropBox"
    /\ RLt(probe.displayInfo.displayWidth, probe.box.width)
    /\ RLt(probe.box.y, probe.displayInfo.offsetY)
    /\ RLt(I(0), probe.actualCropBox.width)
    /\ RLt(I(0), probe.actualCropBox.height)

\* C10: for any containerSize > 0 and image width and height > 0, displayWidth and
\* displayHeight are at most containerSize, with equality on the width when the image
\* is wider than tall, on the height otherwise, and on both when it is square.
C10_DisplayFitsContainer ==
    probe.fn = "geometry" /\ probe.stage # "input"
    => /\ RLe(probe.displayInfo.displayWidth, probe.containerSize)
       /\ RLe(probe.displayInfo.displayHeight, probe.containerSize)
       /\ (probe.imageWidth > probe.imageHeight
             => probe.displayInfo.displayWidth = probe.containerSize)
       /\ (probe.imageWidth <= probe.imageHeight
             => probe.displayInfo.displayHeight = probe.containerSize)
       /\ (probe.imageWidth = probe.imageHeight
             => /\ probe.displayInfo.displayWidth = probe.containerSize
                /\ probe.displayInfo.displayHeight = probe.containerSize)

\* a wide image has been mapped: full width, less than the full height
C10_Witness ==
    /\ probe.fn = "geometry" /\ probe.stage = "displayInfo"
    /\ probe.imageWidth > probe.imageHeight
    /\ probe.displayInfo.displayWidth = probe.containerSize
    /\ RLt(probe.displayInfo.displayHeight, probe.containerSize)

\* C2, as stated: in every reachable state of the store the crop box has width >= 50
\* and height >= 50, and neither is negative.
C2_AlwaysMinSize == AtLeastMinSize(cropBox)

\* C3, as stated: in every reachable state of the store the crop box lies inside the
\* square container, for the container size measured at that moment: the side of the
\* container that is displayed, or what getContainerSize returns while there is none.
C3_AlwaysInsideContainer ==
    InsideContainer(cropBox, I(IF HasImage THEN side ELSE GetContainerSizeDesktop))

\* C5, as stated: a pointer-down of either gesture that finds a crop box of width <= 0
\* or height <= 0 starts no gesture: afterwards neither isDragging nor isResizing holds.
C5_DegenerateStartsNoGesture ==
    lastOp.op \in {"startDrag", "startResize"} /\ lastOp.healed
    => ~isDragging /\ ~isResizing

\* C6: a gesture start that finds a crop box of width <= 0 or height <= 0 replaces it
\* by the centered square of side max(50, floor(0.3 * containerSize)) at
\* x = y = floor((containerSize - side) / 2); for a container of 400 that is
\* {x: 140, y: 140, width: 120, height: 120}.
C6_HealedBoxIsCenteredSquare ==
    lastOp.op \in {"startDrag", "startResize"} /\ lastOp.healed
    => LET thirty == (3 * lastOp.containerSize) \div 10
           s == IF thirty < 50 THEN 50 ELSE thirty
           o == (lastOp.containerSize - s) \div 2
       IN  /\ cropBox = IBox(o, o, s, s)
           /\ (lastOp.containerSize = 400 => cropBox = IBox(140, 140, 120, 120))

\* a gesture start has healed a degenerate box in a container of 400
C6_Witness ==
    /\ lastOp.op \in {"startDrag", "startResize"}
    /\ lastOp.healed
    /\ lastOp.containerSize = 400
    /\ cropBox = IBox(140, 140, 120, 120)

\* C8, as stated: whenever the source rectangle cropImageFree computes has width <= 0
\* or height <= 0, the crop fails with an error and returns no raster.
C8_EmptySourceRectFails ==
    lastOp.op = "cropImageFree" /\ Degenerate(lastOp.actualCropBox)
    => lastOp.outcome = "rejected"

\* C9: a step in which a crop or a grid generation fails (no image, invalid crop box,
\* no canvas context, image load failure, decode failure of the cropped result) leaves
\* the stored image and the stored crop box as they were.
C9_FailureLeavesStore ==
    [][lastOp'.op \in {"cropFailed", "downloadFailed"} => UNCHANGED <<image, cropBox>>]_vars

\* a crop has failed at the decoding of its result while an image and a crop box
\* other than the initial one were stored
C9_Witness ==
    /\ lastOp.op = "cropFailed"
    /\ lastOp.why = "decode"
    /\ HasImage
    /\ cropBox # IBox(50, 50, 300, 300)

\* clamp(v, lo, hi) of the reference formula
Clamp(v, lo, hi) == IF RLt(hi, v) THEN (IF RLt(hi, lo) THEN lo ELSE hi)
                    ELSE (IF RLt(v, lo) THEN lo ELSE v)

\* C11: the display-to-source conversion equals the reference formula for every input:
\* relX = x - offsetX, clampedX = clamp(relX, 0, displayWidth - width), clampedWidth =
\* clamp(width, 0, displayWidth - clampedX) (the same on Y), then the floor of each value
\* times the scale; for container 500, image 1000 x 500 and box {100, 100, 200, 100} it
\* is {x: 200, y: 0, width: 400, height: 200}.
C11_ConversionEqualsReference ==
    probe.fn = "geometry" /\ probe.stage = "actualCropBox"
    => LET d == probe.displayInfo
           b == probe.box
           clampedX == Clamp(RSub(b.x, d.offsetX), I(0), RSub(d.displayWidth, b.width))
           clampedY == Clamp(RSub(b.y, d.offsetY), I(0), RSub(d.displayHeight, b.height))
           clampedWidth  == Clamp(b.width, I(0), RSub(d.displayWidth, clampedX))
           clampedHeight == Clamp(b.height, I(0), RSub(d.displayHeight, clampedY))
           SourcePx(v, scale) == I((v[1] * scale[1]) \div (v[2] * scale[2]))
       IN  /\ probe.actualCropBox = Box(SourcePx(clampedX, d.scaleX), SourcePx(clampedY, d.scaleY),
                                        SourcePx(clampedWidth, d.scaleX),
                                        SourcePx(clampedHeight, d.scaleY))
           /\ (/\ probe.containerSize = I(500)
               /\ probe.imageWidth = 1000 /\ probe.imageHeight = 500
               /\ b = IBox(100, 100, 200, 100)
               => probe.actualCropBox = IBox(200, 0, 400, 200))

\* the box {100, 100, 200, 100} on the 1000 x 500 image in a container of 500 has been
\* converted to {200, 0, 400, 200}
C11_Witness ==
    /\ probe.fn = "geometry" /\ probe.stage = "actualCropBox"
    /\ probe.containerSize = I(500)
    /\ probe.imageWidth = 1000 /\ probe.imageHeight = 500
    /\ probe.box = IBox(100, 100, 200, 100)
    /\ probe.actualCropBox = IBox(200, 0, 400, 200)


(***************************************************************************)
(* Grid generation.                                                        *)
(***************************************************************************)
PositiveInteger(n) == n[2] = 1 /\ n[1] >= 1

GridResolved == probe.fn = "createGridPuzzle" /\ probe.outcome = "resolved"

\* C12: for a grid configuration of R rows and C columns, createGridPuzzle draws
\* exactly C-1 vertical and R-1 horizontal bands, and none on an axis whose count
\* is 1.
C12_BandCounts ==
    (/\ GridResolved
     /\ PositiveInteger(probe.gridConfig.rows)
     /\ PositiveInteger(probe.gridConfig.cols))
    => /\ Len(probe.bands.vertical) = probe.gridConfig.cols[1] - 1
       /\ Len(probe.bands.horizontal) = probe.gridConfig.rows[1] - 1
       /\ probe.gridConfig.cols = I(1) => probe.bands.vertical = <<>>
       /\ probe.gridConfig.rows = I(1) => probe.bands.horizontal = <<>>

C12_Witness ==
    /\ GridResolved
    /\ probe.gridConfig = [rows |-> I(1), cols |-> I(3)]
    /\ Len(probe.bands.vertical) = 2
    /\ probe.bands.horizontal = <<>>

\* C13: the border width drawn into the output is borderWidth times
\* sourceRect.width / cropBox.width when a crop box is given, and borderWidth times
\* image.width / displayWidth when none is given; border 3 with a crop box 200 wide
\* and a source rectangle 400 wide is drawn 6 wide.
C13_DrawnBorderWidth ==
    GridResolved =>
        LET displayInfo == GetImageDisplayInfo(probe.containerSize, probe.imageWidth,
                                               probe.imageHeight)
            sourceRect == ActualCropBox(probe.cropBox.box, displayInfo)
            borderWidth == ToNumber(probe.borderWidth).v
            expected ==
                IF probe.cropBox.given
                THEN RDiv(RMul(borderWidth, sourceRect.width), probe.cropBox.box.width)
                ELSE RDiv(RMul(borderWidth, I(probe.imageWidth)),
                          displayInfo.displayWidth)
        IN  /\ probe.lineWidth = expected
            /\ \A i \in DOMAIN probe.bands.vertical :
                   probe.bands.vertical[i].width = expected
            /\ \A i \in DOMAIN probe.bands.horizontal :
                   probe.bands.horizontal[i].height = expected
            /\ (/\ probe.cropBox.given
                /\ borderWidth = I(3)
                /\ probe.cropBox.box.width = I(200)
                /\ sourceRect.width = I(400)) => probe.lineWidth = I(6)

C13_Witness ==
    /\ GridResolved
    /\ probe.borderWidth = Num(I(3))
    /\ probe.cropBox = CropBoxArg(IBox(100, 100, 200, 100))
    /\ probe.containerSize = I(500)
    /\ probe.imageWidth = 1000
    /\ probe.gridConfig = [rows |-> I(3), cols |-> I(3)]
    /\ probe.bands.vertical[1].width = I(6)
    /\ probe.bands.horizontal[2].height = I(6)

\* the border widths of BorderWidths that Number() turns into NaN
NotANumber(v) == v.t \in {"NaN", "undefined"} \/ (v.t = "string" /\ v.s = "abc")

GridRejectedBeforeRaster ==
    /\ probe.stage = "done"
    /\ probe.outcome = "rejected"
    /\ ~probe.loaded
    /\ probe.canvases = 0
    /\ probe.bands = NoBands

\* C16: a grid generation whose border width is NaN after numeric conversion is
\* rejected before the image is loaded or a canvas is drawn, and has no output.
C16_NaNRejectedBeforeLoad ==
    (/\ probe.fn = "createGridPuzzle"
     /\ probe.stage # "called"
     /\ NotANumber(probe.borderWidth)) => GridRejectedBeforeRaster

C16_Witness ==
    /\ probe.fn = "createGridPuzzle"
    /\ probe.borderWidth = Str("abc")
    /\ probe.entry = "createCompletePuzzle"
    /\ GridRejectedBeforeRaster

\* C17: a grid generation whose rows or cols are not positive integers, or whose
\* border width is negative, is rejected before any raster work and has no output.
C17_OutOfDomainRejected ==
    (/\ probe.fn = "createGridPuzzle"
     /\ probe.stage # "called"
     /\ \/ ~PositiveInteger(probe.gridConfig.rows)
        \/ ~PositiveInteger(probe.gridConfig.cols)
        \/ (probe.borderWidth.t = "number" /\ RLt(probe.borderWidth.v, I(0))))
    => GridRejectedBeforeRaster


\* the grid sizes the README promises, 1x1 to 9x9
GridSizeNames == <<"1x1", "2x2", "3x3", "4x4", "5x5", "6x6", "7x7", "8x8", "9x9">>

\* C18: every grid size from 1x1 to 9x9 can be selected in the store and has a grid
\* configuration with matching rows and cols.
C18_EveryGridSizeConfigured ==
    /\ \A n \in 1..9 :
          /\ GridSizeNames[n] \in GridSizeType
          /\ GridSizeNames[n] \in DOMAIN GridConfigs
          /\ GridConfigs[GridSizeNames[n]].rows = n
          /\ GridConfigs[GridSizeNames[n]].cols = n
    /\ \E n \in 1..9 :
          /\ gridSize = GridSizeNames[n]
          /\ CurrentGridConfig.rows = n
          /\ CurrentGridConfig.cols = n


(***************************************************************************)
(* Resets of the crop box.                                                 *)
(***************************************************************************)
\* nothing is pending: no timer, no animation-frame callback, no operation in flight
Settled ==
    /\ rafQueue = <<>>
    /\ watchTimers = 0
    /\ resetTimers = 0
    /\ upload = Idle
    /\ crop = Idle

\* the letterboxed rectangle of the image in a square container of the given side
Letterbox(containerSize) ==
    IF image.width > image.height
    THEN [x |-> I(0),
          y |-> RDiv(RSub(containerSize, RDiv(RMul(containerSize, I(image.height)),
                                               I(image.width))), I(2)),
          width |-> containerSize,
          height |-> RDiv(RMul(containerSize, I(image.height)), I(image.width))]
    ELSE [x |-> RDiv(RSub(containerSize, RDiv(RMul(containerSize, I(image.width)),
                                               I(image.height))), I(2)),
          y |-> I(0),
          width |-> RDiv(RMul(containerSize, I(image.width)), I(image.height)),
          height |-> containerSize]

\* C14: once a crop has succeeded and every pending timer and animation-frame
\* callback has run, with no pointer event after the reset, the crop box is the
\* displayed rectangle of the new image inset by 2 px on every side; no commit of
\* an earlier drag or resize overwrites it.
C14_ResetBoxSurvives ==
    (/\ lastOp.op \in {"reset", "frameAfterReset"}
     /\ HasImage
     /\ Settled)
    => LET r == Letterbox(I(side))
       IN  cropBox = Box(RAdd(r.x, I(2)), RAdd(r.y, I(2)),
                         RSub(r.width, I(4)), RSub(r.height, I(4)))

C20_GesturesExclusive == ~(isDragging /\ isResizing)


FrameRan == {"frame", "frameAfterReset"}

\* C21: a gesture in progress ends on a pointer-cancel as on a pointer-up: the
\* machine is idle afterwards, isDragging and isResizing false.
C21_CancelEndsGesture ==
    lastOp.op = "pointerCancel" => (~isDragging /\ ~isResizing /\ listeners = <<>>)

\* C22: the final position of a gesture is never lost: a move event appends its
\* commit behind those pending, and when the callbacks of a frame have run the
\* stored crop box is constrainCropBox of the box derived from the last move event.
C22_FinalPositionCommitted ==
    [][/\ lastOp'.op = "pointerMove" =>
            /\ SubSeq(rafQueue', 1, Len(rafQueue)) = rafQueue
            /\ (isDragging /\ ~isResizing) =>
                   rafQueue' = Append(rafQueue,
                                      Box(RSub(I(lastOp'.px), dragStartPos.x),
                                          RSub(I(lastOp'.py), dragStartPos.y),
                                          cropBox.width, cropBox.height))
            /\ (isResizing /\ ~isDragging) =>
                   rafQueue' = Append(rafQueue, ResizeBox(lastOp'.px, lastOp'.py))
       /\ lastOp'.op \in FrameRan =>
            /\ rafQueue' = <<>>
            /\ cropBox' = ConstrainCropBox(rafQueue[Len(rafQueue)],
                                           I(GetContainerSizeDesktop))]_vars

\* a frame has run during a drag whose last move was 10 px up and left
C22_Witness ==
    /\ lastOp.op = "frame"
    /\ isDragging
    /\ ~isResizing
    /\ side = 400
    /\ image.width = 1000
    /\ cropBox = IBox(0, 92, 396, 196)

\* C23: whatever the number of move events between two animation frames, at most
\* one commit is written to the store in the next frame.
C23_OneCommitPerFrame ==
    [][lastOp'.op \in FrameRan => Len(rafQueue) <= 1]_vars

\* the delta of the move event just delivered, and the snapshot adjusted by the
\* handle's rule
ResizeDelta == [x |-> RSub(I(lastOp'.px), dragStartPos.x),
                y |-> RSub(I(lastOp'.py), dragStartPos.y)]
Adjusted ==
    LET b == initialCropBox
        dx == ResizeDelta.x
        dy == ResizeDelta.y
    IN  CASE resizeHandle = "nw" ->
               Box(RAdd(b.x, dx), RAdd(b.y, dy), RSub(b.width, dx), RSub(b.height, dy))
          [] resizeHandle = "ne" ->
               Box(b.x, RAdd(b.y, dy), RAdd(b.width, dx), RSub(b.height, dy))
          [] resizeHandle = "sw" ->
               Box(RAdd(b.x, dx), b.y, RSub(b.width, dx), RAdd(b.height, dy))
          [] resizeHandle = "se" ->
               Box(b.x, b.y, RAdd(b.width, dx), RAdd(b.height, dy))
\* the box the commit of the move event just delivered writes to the store
Committed == ConstrainCropBox(rafQueue'[Len(rafQueue')], I(GetContainerSizeDesktop))
ResizeMoved == lastOp'.op = "pointerMove" /\ isResizing /\ ~isDragging

\* C26: where the adjusted box already has the minimum size and lies in the
\* container, the box a resize move commits is the snapshot adjusted by
\* nw: x+dx, y+dy, w-dx, h-dy; ne: y+dy, w+dx, h-dy; sw: x+dx, w-dx, h+dy;
\* se: w+dx, h+dy.
C26_ResizeAdjustsSnapshot ==
    [][(/\ ResizeMoved
        /\ AtLeastMinSize(Adjusted)
        /\ InsideContainer(Adjusted, I(GetContainerSizeDesktop)))
       => Committed = Adjusted]_vars

C26_Witness ==
    /\ lastOp.op = "pointerMove"
    /\ lastOp.px = 240
    /\ isResizing
    /\ ~isDragging
    /\ resizeHandle = "ne"
    /\ side = 400
    /\ initialCropBox = IBox(2, 102, 396, 196)
    /\ rafQueue = <<IBox(2, 92, 386, 206)>>

\* C27: when a resize with nw, ne or sw would shrink an extent below 50, the
\* committed extent is exactly 50 and the moved x or y still follows the pointer
\* (snapshot plus delta, clamped to the container): the opposite edge moves.
C27_FloorDoesNotAnchor ==
    [][ResizeMoved =>
        LET limit == RSub(I(GetContainerSizeDesktop), I(50))
        IN  /\ (resizeHandle \in {"nw", "sw"} /\ RLt(Adjusted.width, I(50))) =>
                   /\ Committed.width = I(50)
                   /\ Committed.x = Clamp(RAdd(initialCropBox.x, ResizeDelta.x),
                                          I(0), limit)
            /\ (resizeHandle \in {"nw", "ne"} /\ RLt(Adjusted.height, I(50))) =>
                   /\ Committed.height = I(50)
                   /\ Committed.y = Clamp(RAdd(initialCropBox.y, ResizeDelta.y),
                                          I(0), limit)]_vars

\* nw pulled 160 px down on a box 196 high: 50 high at y = 262, the bottom edge
\* has moved from 298 to 312
C27_Witness ==
    /\ lastOp.op = "pointerMove"
    /\ lastOp.py = 410
    /\ isResizing
    /\ ~isDragging
    /\ resizeHandle = "nw"
    /\ side = 400
    /\ initialCropBox = IBox(2, 102, 396, 196)
    /\ rafQueue = <<IBox(2, 262, 396, 50)>>

\* C29: a resize with the se handle never changes x or y: for a snapshot that
\* satisfies the invariants and any pointer delta the committed box has the
\* snapshot's x and y.
C29_SouthEastKeepsOrigin ==
    [][(/\ ResizeMoved
        /\ resizeHandle = "se"
        /\ AtLeastMinSize(initialCropBox)
        /\ InsideContainer(initialCropBox, I(GetContainerSizeDesktop)))
       => (Committed.x = initialCropBox.x /\ Committed.y = initialCropBox.y)]_vars

\* C30: once stopDrag or stopResize has run the gesture writes nothing more: an
\* animation frame that runs while the machine is idle leaves the crop box as
\* it is.
C30_IdleBoxConstant ==
    [][(~isDragging /\ ~isResizing /\ lastOp'.op \in FrameRan)
       => cropBox' = cropBox]_vars


\* C28: each internal band is centered on its cell boundary: vertical band i
\* (1 <= i <= cols-1) covers [i*cellWidth - w/2, i*cellWidth + w/2] over the full
\* height, horizontal band i covers [i*cellHeight - w/2, i*cellHeight + w/2] over
\* the full width, with cellWidth = target.width / cols, cellHeight =
\* target.height / rows and w the adjusted border width; none on the outer edges.
C28_BandsCenteredOnBoundaries ==
    (/\ GridResolved
     /\ PositiveInteger(probe.gridConfig.rows)
     /\ PositiveInteger(probe.gridConfig.cols))
    => LET displayInfo == GetImageDisplayInfo(probe.containerSize, probe.imageWidth,
                                              probe.imageHeight)
           sourceRect == ActualCropBox(probe.cropBox.box, displayInfo)
           targetWidth == IF probe.cropBox.given THEN sourceRect.width
                          ELSE I(probe.imageWidth)
           targetHeight == IF probe.cropBox.given THEN sourceRect.height
                           ELSE I(probe.imageHeight)
           cellWidth == RDiv(targetWidth, probe.gridConfig.cols)
           cellHeight == RDiv(targetHeight, probe.gridConfig.rows)
           half == RDiv(probe.lineWidth, I(2))
           v == probe.bands.vertical
           h == probe.bands.horizontal
       IN  /\ DOMAIN v = 1..(probe.gridConfig.cols[1] - 1)
           /\ DOMAIN h = 1..(probe.gridConfig.rows[1] - 1)
           /\ \A i \in DOMAIN v :
                  /\ v[i].x = RSub(RMul(I(i), cellWidth), half)
                  /\ RAdd(v[i].x, v[i].width) = RAdd(RMul(I(i), cellWidth), half)
                  /\ v[i].y = I(0)
                  /\ v[i].height = targetHeight
           /\ \A i \in DOMAIN h :
                  /\ h[i].y = RSub(RMul(I(i), cellHeight), half)
                  /\ RAdd(h[i].y, h[i].height) = RAdd(RMul(I(i), cellHeight), half)
                  /\ h[i].x = I(0)
                  /\ h[i].width = targetWidth

\* 3 x 3 on the 400 x 200 source rectangle, border 6: the first vertical band
\* covers [400/3 - 3, 400/3 + 3]
C28_Witness ==
    /\ GridResolved
    /\ probe.borderWidth = Num(I(3))
    /\ probe.cropBox = CropBoxArg(IBox(100, 100, 200, 100))
    /\ probe.containerSize = I(500)
    /\ probe.imageWidth = 1000
    /\ probe.gridConfig = [rows |-> I(3), cols |-> I(3)]
    /\ probe.bands.vertical[1] = Box(Q(391, 3), I(0), I(6), I(200))
    /\ probe.bands.horizontal[2] = Box(I(0), Q(391, 3), I(400), I(6))


(***************************************************************************)
(* Order and isolation of the asynchronous operations.                     *)
(***************************************************************************)
\* C24: after a crop the reset of the crop box never runs before the store holds
\* the cropped image with its decoded width and height: a reset timer is set only
\* in the step that stores the decoded image, and a reset runs only off such a
\* timer.
C24_ResetAfterSetImage ==
    [][/\ resetTimers' > resetTimers =>
            /\ crop.pc = "decoding"
            /\ crop.url[1] > 0 /\ crop.url[2] > 0
            /\ image' = [url |-> crop.url, width |-> crop.url[1], height |-> crop.url[2]]
            /\ cropBox' = cropBox
       /\ lastOp'.op = "reset" =>
            /\ resetTimers > 0
            /\ resetTimers' = resetTimers - 1]_vars

\* a reset has run on a cropped image
C24_Witness ==
    /\ lastOp.op = "reset"
    /\ HasImage
    /\ image.url \notin UploadSizes
    /\ innerWidth = 1280
    /\ cropBox = FullImageBox(I(side), image.width, image.height)

\* the source rectangle of a display rectangle, as the page is now
SourceRectNow(box) ==
    ActualCropBox(box, GetImageDisplayInfo(I(GetContainerSizeProcessor),
                                           image.width, image.height))

\* C25: a crop or grid operation works on the crop rectangle as it was when the
\* operation was requested; updates of the crop box committed while it awaits the
\* image load do not change the rectangle it uses.
C25_OperationUsesRequestedBox ==
    [][/\ (crop.pc = "idle" /\ crop'.pc = "loading") => crop'.cropBox = cropBox
       /\ (crop.pc = "loading" /\ crop'.pc = "loading") => crop'.cropBox = crop.cropBox
       /\ (grid.pc = "idle" /\ grid'.pc = "loading") => grid'.cropBox = cropBox
       /\ (grid.pc = "loading" /\ grid'.pc = "loading") => grid'.cropBox = grid.cropBox
       /\ (lastOp'.op = "cropImageFree" /\ HasImage)
             => lastOp'.actualCropBox = SourceRectNow(crop.cropBox)
       /\ (lastOp'.op = "downloadDone" /\ HasImage)
             => lastOp'.actualCropBox = SourceRectNow(grid.cropBox)]_vars

\* a crop has resolved on a rectangle that is no longer the one in the store
C25_Witness ==
    /\ lastOp.op = "cropImageFree"
    /\ HasImage
    /\ ~Degenerate(cropBox)
    /\ lastOp.actualCropBox # SourceRectNow(cropBox)


(***************************************************************************)
(* Path independence of a resize.                                          *)
(***************************************************************************)
\* the box a resize commits, as a function of the gesture-start snapshot, the
\* gesture-start pointer position, the handle, the pointer position and the
\* container size alone
ResizeOutcome(snapshot, start, handle, px, py, containerSize) ==
    LET dx == RSub(I(px), start.x)
        dy == RSub(I(py), start.y)
        west == handle \in {"nw", "sw"}
        north == handle \in {"nw", "ne"}
        width == Clamp(IF west THEN RSub(snapshot.width, dx)
                               ELSE RAdd(snapshot.width, dx),
                       I(50), I(containerSize))
        height == Clamp(IF north THEN RSub(snapshot.height, dy)
                                 ELSE RAdd(snapshot.height, dy),
                        I(50), I(containerSize))
        x == Clamp(IF west THEN RAdd(snapshot.x, dx) ELSE snapshot.x,
                   I(0), RSub(I(containerSize), width))
        y == Clamp(IF north THEN RAdd(snapshot.y, dy) ELSE snapshot.y,
                   I(0), RSub(I(containerSize), height))
    IN  Box(x, y, width, height)

\* C31: a resize move is path-independent: the box it commits is a function of
\* the gesture-start snapshot, the gesture-start pointer position, the handle,
\* the current pointer position and the container size, whatever the earlier
\* move events of the gesture were and whatever they left in the store.
C31_ResizePathIndependent ==
    [][ResizeMoved =>
        Committed = ResizeOutcome(initialCropBox, dragStartPos, resizeHandle,
                                  lastOp'.px, lastOp'.py, GetContainerSizeDesktop)]_vars

\* a second move of one se resize, after the first move was committed: the
\* store holds the first move's box, the queue the box of the second move
C31_Witness ==
    /\ lastOp.op = "pointerMove"
    /\ lastOp.px = 260
    /\ lastOp.py = 260
    /\ isResizing
    /\ ~isDragging
    /\ resizeHandle = "se"
    /\ side = 400
    /\ initialCropBox = IBox(2, 102, 396, 196)
    /\ cropBox = IBox(2, 102, 386, 186)
    /\ rafQueue = <<IBox(2, 102, 406, 206)>>


(***************************************************************************)
(* The processing flag and the downloads in flight.                        *)
(***************************************************************************)
\* C32: whenever a grid-puzzle download started by downloadCompletePuzzle is
\* still in flight, isProcessing is true (so the button that is disabled while
\* isProcessing is true cannot start a second one).
C32_InFlightIsProcessing == grid.pc = "loading" => isProcessing


(***************************************************************************)
(* The image a crop loads and the image it measures.                       *)
(***************************************************************************)
\* C33: a crop operation computes its display mapping from the dimensions of
\* the image whose pixels it loaded: whatever else completes while it awaits
\* the image load, the width and height it reads from the store are those of
\* the image URL it loaded.
C33_DimensionsOfLoadedImage ==
    probe.fn = "cropImageFree" =>
        \A i \in DOMAIN probe.runs :
            <<probe.runs[i].imageWidth, probe.runs[i].imageHeight>> = probe.runs[i].url


(***************************************************************************)
(* The preview container each operation measures.                          *)
(***************************************************************************)
\* C34: for every viewport width the crop-box initialisation on upload, the
\* crop-box reset after a crop and the display mapping of the image processor
\* measure the same preview container, and they fall back to the same default
\* size when the container is missing.
C34_SameContainerEverywhere ==
    /\ GetContainerSizeUpload = GetContainerSizeProcessor
    /\ GetContainerSizeReset = GetContainerSizeProcessor


(***************************************************************************)
(* Failed uploads.                                                         *)
(***************************************************************************)
\* the ways of failing: unsupported type, size above 5 MB or below 100 bytes,
\* unsafe file name, bad signature, image dimensions out of range, unreadable
FailsUpload(file) ==
    \/ file.type \notin {"image/jpeg", "image/png", "image/gif", "image/webp"}
    \/ file.size > 5 * 1024 * 1024
    \/ file.size < 100
    \/ ~ValidateFileName(file.name)
    \/ ~CheckFileSignature(file)
    \/ ~UrlCreated(file)
    \/ ~file.decodes
    \/ file.width > 8000 \/ file.height > 8000
    \/ file.width < 10 \/ file.height < 10

\* C35: an upload that fails (unsupported type, size above 5 MB or below 100
\* bytes, unsafe file name, bad signature, image dimensions out of range,
\* unreadable image) returns false, sets uploadError, leaves the stored image
\* and the crop box unchanged, and leaves isUploading false when it ends.
C35_FailedUploadChangesNothing ==
    [][(upload.pc = "reading" /\ upload'.pc # "reading" /\ FailsUpload(upload.file))
       => /\ lastOp'.op = "uploadFailed"
          /\ lastOp'.returned = FALSE
          /\ uploadError'
          /\ image' = image
          /\ cropBox' = cropBox
          /\ ~isUploading'
          /\ upload'.pc = "idle"]_vars

\* a PNG with the first bytes of a JPEG has been refused, after an upload that
\* succeeded and a clear: the crop box of the first upload is still there
C35_Witness ==
    /\ lastOp.op = "uploadFailed"
    /\ lastOp.why = "badSignature"
    /\ uploadError
    /\ ~isUploading
    /\ ~HasImage
    /\ innerWidth = 1280
    /\ cropBox = UploadBox(I(side), 1000, 500)


(***************************************************************************)
(* The error log (useErrorHandler).  errors is one array for the whole     *)
(* page.  An entry is its type and its id; generateErrorId makes an id     *)
(* from the time and a random string, modelled as the number of the call   *)
(* that made the entry, so a larger id is a newer entry.  The log starts   *)
(* as any number of earlier calls has left it.                             *)
(***************************************************************************)
MaxErrors == 50
\* calls made on top of the initial log
MaxErrorCalls == 3
ErrorTypes == <<"error", "warning", "info">>
\* an id no entry has
AbsentId == 0

ErrorInit ==
    /\ MainInit
    /\ \E n \in 0..MaxErrors :
          probe = [fn |-> "errorLog",
                   errors |-> [i \in 1..n |-> [id |-> n - i + 1,
                                              type |-> ErrorTypes[((n - i) % 3) + 1]]],
                   nextId |-> n + 1,
                   calls |-> 0,
                   last |-> "none"]

\* a limit that lets the log grow to 51 entries
AddErrorOffByOne(type) ==
    LET errorInfo == [id |-> probe.nextId, type |-> type]
        unshifted == <<errorInfo>> \o probe.errors
    IN  IF Len(unshifted) > MaxErrors + 1 THEN SubSeq(unshifted, 1, MaxErrors + 1)
        ELSE unshifted

\* addError: unshift, then slice(0, 50) when the log has more than 50 entries
AddError(type) ==
    LET errorInfo == [id |-> probe.nextId, type |-> type]
        unshifted == <<errorInfo>> \o probe.errors
    IN  IF Len(unshifted) > MaxErrors THEN SubSeq(unshifted, 1, MaxErrors)
        ELSE unshifted

Handle(name, type) ==
    /\ probe.fn = "errorLog"
    /\ probe.calls < MaxErrorCalls
    /\ probe' = [probe EXCEPT !.errors = AddError(type),
                              !.nextId = @ + 1,
                              !.calls = @ + 1,
                              !.last = name]
    /\ UNCHANGED mainVars

HandleError == Handle("handleError", "error")
HandleWarning == Handle("handleWarning", "warning")
HandleInfo == Handle("handleInfo", "info")

\* clearError: findIndex, then splice(index, 1) when there is such an entry
ClearError(errorId) ==
    /\ probe.fn = "errorLog"
    /\ probe.calls < MaxErrorCalls
    /\ LET found == {i \in DOMAIN probe.errors : probe.errors[i].id = errorId}
           index == IF found = {} THEN -1
                    ELSE CHOOSE i \in found : \A j \in found : i <= j
       IN  probe' = [probe EXCEPT
                        !.errors = IF index > -1
                                   THEN SubSeq(@, 1, index - 1) \o SubSeq(@, index + 1, Len(@))
                                   ELSE @,
                        !.calls = @ + 1,
                        !.last = "clearError"]
    /\ UNCHANGED mainVars

\* the ids clearError is called with: the newest, a middle and the oldest entry,
\* and an id that is not in the log
ClearIds ==
    {AbsentId} \cup {probe.errors[i].id :
                        i \in {1, (Len(probe.errors) + 1) \div 2, Len(probe.errors)}
                             \cap DOMAIN probe.errors}

ErrorNext ==
    \/ HandleError
    \/ HandleWarning
    \/ HandleInfo
    \/ \E errorId \in ClearIds : ClearError(errorId)

SpecErrors == ErrorInit /\ [][ErrorNext]_vars

\* C36: after any sequence of handleError, handleWarning, handleInfo and
\* clearError calls the error log holds at most 50 entries, ordered newest
\* first, and adding an entry to a full log drops exactly the oldest one: the
\* new entry comes first and the 49 newest of the old entries follow it.
C36_ErrorLogBounded ==
    [][probe.fn = "errorLog" =>
        LET before == probe.errors
            after == probe'.errors
        IN  /\ Len(after) <= 50
            /\ \A i \in DOMAIN after, j \in DOMAIN after :
                   i < j => after[i].id > after[j].id
            /\ (probe'.last \in {"handleError", "handleWarning", "handleInfo"}
                /\ Len(before) = 50)
               => /\ Len(after) = 50
                  /\ after[1].id = probe.nextId
                  /\ \A i \in 1..49 : after[i + 1] = before[i]
                  /\ \A i \in DOMAIN after : after[i] # before[50]]_vars

\* a warning has been added to a log of 50 entries: the entry of the first call
\* is gone, the entry of the second is the last
C36_Witness ==
    /\ probe.fn = "errorLog"
    /\ probe.last = "handleWarning"
    /\ probe.calls = 1
    /\ Len(probe.errors) = 50
    /\ probe.errors[1] = [id |-> 51, type |-> "warning"]
    /\ probe.errors[50].id = 2

====
